---- MODULE Spec2Model ----
(***************************************************************************)
(* A model of the ten-guard-watch news pipeline:                           *)
(*   src/auto_news_updater.py     normalize_title, are_titles_similar,     *)
(*                                deduplicate_articles,                    *)
(*                                extract_tags_and_urgency, generate_slug, *)
(*                                save_articles_to_json, update_html       *)
(*   src/scripts/generate_trends.py  extract_domain, extract_keywords,     *)
(*                                load_news_files, compute_metrics,        *)
(*                                save_metrics, main                       *)
(*                                                                         *)
(* Python strings are modelled as sequences of one-character strings, so   *)
(* that lower-casing, the regular-expression filters, split/join and the   *)
(* substring tests are computed character by character.  A dict is a       *)
(* record when its keys are fixed, a record with a varying DOMAIN when its *)
(* keys may be missing (an article, a news item), and a sequence of        *)
(* <<key, value>> pairs in insertion order when it is a Counter.           *)
(***************************************************************************)
EXTENDS Integers, Sequences, FiniteSets, TLC

VARIABLES
    pc,              \* position of the run that the specification drives
    sim_title1,      \* arguments of the call of are_titles_similar
    sim_title2,
    sim_threshold,   \* ... its threshold, <<numerator, denominator>>
    sim_result,      \* its result ("none" before the call)
    input_articles,  \* the article list handed to deduplicate_articles / save
    deduped,         \* result of deduplicate_articles(input_articles)
    deduped_twice,   \* result of deduplicate_articles(deduped)
    deduped_again,   \* result of a second deduplicate_articles(input_articles)
    classified,      \* results of extract_tags_and_urgency, one per input article
    today,           \* the calendar day of datetime.now(), as a day number
    runs,            \* number of runs started so far
    news,            \* the news/ directory: day number -> file content
    save_ok,         \* return value of save_articles_to_json ("none" before)
    in_items,        \* the list handed to compute_metrics as items
    in_days_7,       \* ... as days_7
    in_days_30,      \* ... as days_30
    out_metrics,     \* result of compute_metrics / the empty metrics of main
    out_metrics_again, \* result of a second compute_metrics on the same lists
    news_exists,     \* whether the news/ directory exists
    load_days,       \* the argument days of load_news_files
    stats,           \* the stats/ directory: file name -> file content
    outcome,         \* how the top-level call ended ("none" before it ends)
    site,            \* the page, its backup and update_info.json
    backup_articles, \* what the backup source returns when it is asked
    normalized,      \* result of normalize_title(sim_title1)
    normalized_twice,\* result of normalize_title(normalized)
    saved_runs       \* per day, the article lists of the runs on which
                     \* save_articles_to_json returned True, in their order

vars == <<pc, sim_title1, sim_title2, sim_threshold, sim_result, input_articles,
          deduped, deduped_twice, classified, today, runs, news, save_ok,
          in_items, in_days_7, in_days_30, out_metrics, out_metrics_again,
          news_exists, load_days, stats, outcome, site, backup_articles,
          normalized, normalized_twice, saved_runs, deduped_again>>

-----------------------------------------------------------------------------
(* Bounds of the model.                                                    *)

\* longest generated title (titles over GenAlphabet, besides the fixed ones)
MaxGenLen == 2
\* longest article list handed to deduplicate_articles
MaxArticles == 3
\* the calendar day of the first run of the snapshot writer: January 31st
FirstDay == 31
\* the calendar day of the run of the trends generator: February 9th
MetricsToday == 40
\* longest article list handed to save_articles_to_json
MaxSaved == 1
\* number of runs of the snapshot writer
MaxRuns == 2
\* number of runs of the trends generator
MaxTrendRuns == 2
\* longest item list handed to compute_metrics
MaxItems == 3
\* longest generated title handed to normalize_title
MaxNormLen == 3
\* longest list the three sources return, and the backup source
MaxFetched == 2
MaxBackup == 1
\* longest item list of a run of main of generate_trends
MaxTrendItems == 2
\* largest argument days of load_news_files; the directory holds files from
\* that many days ago
MaxLoadDays == 4

-----------------------------------------------------------------------------
(* Strings.                                                                *)

\* the list with the elements of the function f on 1..n, as a tuple: TLC
\* evaluates it once, and not at every application as it does a function
\* constructor
List(f) == SubSeq(f, 1, Len(f))

\* the characters of a TLA+ string, as a sequence of one-character strings
Chars(s) == List([i \in 1..Len(s) |-> SubSeq(s, i, i)])

UpperSeq == Chars("ABCDEFGHIJKLMNOPQRSTUVWXYZ")
LowerSeq == Chars("abcdefghijklmnopqrstuvwxyz")
DigitSeq == Chars("0123456789")

Range(f) == {f[i] : i \in DOMAIN f}

UpperSet == Range(UpperSeq)
LowerSet == Range(LowerSeq)
DigitSet == Range(DigitSeq)

\* str.isspace() / the class \s, on the characters the model uses
IsSpace(c) == c \in {" ", "\t", "\n"}
\* the class \w: letters, digits and the underscore
IsWord(c) == c \in UpperSet \cup LowerSet \cup DigitSet \cup {"_"}

\* str.lower() of one character
LowerChar(c) ==
    IF c \in UpperSet
    THEN LowerSeq[CHOOSE i \in DOMAIN UpperSeq : UpperSeq[i] = c]
    ELSE c

\* str.lower()
Lower(s) == List([i \in 1..Len(s) |-> LowerChar(s[i])])

\* the elements of a set of indices of 1..n, ascending
Ascending(S, n) ==
    LET Member(i) == i \in S
    IN  SelectSeq(List([i \in 1..n |-> i]), Member)

\* the elements of s at the indices of the set `at`, in order
AtIndices(s, at) ==
    LET indices == Ascending(at, Len(s))
    IN  List([k \in 1..Len(indices) |-> s[indices[k]]])

\* the maximal runs of characters of s that satisfy In, in order
Runs(s, In(_)) ==
    LET starts == Ascending({i \in 1..Len(s) : In(s[i]) /\ (i = 1 \/ ~In(s[i - 1]))},
                            Len(s))
        ends == Ascending({i \in 1..Len(s) : In(s[i]) /\ (i = Len(s) \/ ~In(s[i + 1]))},
                          Len(s))
    IN  List([k \in 1..Len(starts) |-> SubSeq(s, starts[k], ends[k])])

NotSpace(c) == ~IsSpace(c)

\* str.split(): the maximal runs of non-whitespace characters, in order
Split(s) == Runs(s, NotSpace)

\* sep.join(words)
RECURSIVE Join(_, _)
Join(words, sep) ==
    IF words = <<>> THEN <<>>
    ELSE IF Len(words) = 1 THEN words[1]
    ELSE words[1] \o sep \o Join(Tail(words), sep)

\* the operator "sub in s" of Python strings
Contains(s, sub) ==
    \E i \in 0..(Len(s) - Len(sub)) : SubSeq(s, i + 1, i + Len(sub)) = sub

\* s[:n]
Prefix(s, n) == SubSeq(s, 1, IF Len(s) < n THEN Len(s) ELSE n)

-----------------------------------------------------------------------------
(* normalize_title and are_titles_similar.                                 *)

WordOrSpace(c) == IsWord(c) \/ IsSpace(c)

\* normalize_title with its last two steps exchanged: the blanks are
\* collapsed before the special characters are removed
normalize_title_collapse_first(title) ==
    IF title = <<>> THEN <<>>
    ELSE SelectSeq(Join(Split(Lower(title)), <<" ">>), WordOrSpace)

normalize_title(title) ==
    IF title = <<>> THEN <<>>
    ELSE Join(Split(SelectSeq(Lower(title), WordOrSpace)), <<" ">>)

\* the stopwords of are_titles_similar
stopwords ==
    { Chars(w) : w \in
        {"the", "a", "an", "and", "or", "but", "in", "on", "at", "to", "for",
         "of", "with", "by", "from", "as", "is", "was", "are", "were", "been",
         "be", "have", "has", "had", "do", "does", "did", "will", "would",
         "could", "should", "may", "might", "must", "can", "this", "that",
         "these", "those"} }

\* the default of the parameter threshold, 0.7, as numerator and denominator
ThresholdNum == 7
ThresholdDen == 10
DefaultThreshold == <<ThresholdNum, ThresholdDen>>

\* both normalized titles must be longer than this for the containment test
ContainLen == 20
\* a significant word is longer than this
SignificantLen == 4

\* n / d >= threshold, for d > 0: the quotients the model meets have small
\* denominators, so the float comparison agrees with the rational one
AtLeast(n, d, threshold) == n * threshold[2] >= threshold[1] * d

\* are_titles_similar without the test "norm1 == norm2": a pair of equal
\* titles then has to pass the containment or the word tests
are_titles_similar_no_exact(title1, title2, threshold) ==
    IF title1 = <<>> \/ title2 = <<>> THEN FALSE
    ELSE
    LET norm1 == normalize_title(title1)
        norm2 == normalize_title(title2)
        words1 == Range(Split(norm1)) \ stopwords
        words2 == Range(Split(norm2)) \ stopwords
        significant_words1 == {w \in words1 : Len(w) > SignificantLen}
        significant_words2 == {w \in words2 : Len(w) > SignificantLen}
    IN  IF /\ Len(norm1) > ContainLen
           /\ Len(norm2) > ContainLen
           /\ (Contains(norm2, norm1) \/ Contains(norm1, norm2))
        THEN TRUE
        ELSE IF words1 = {} \/ words2 = {} THEN FALSE
        ELSE IF /\ significant_words1 # {}
                /\ significant_words2 # {}
                /\ AtLeast(Cardinality(significant_words1 \cap significant_words2),
                           Cardinality(significant_words1 \cup significant_words2),
                           threshold)
        THEN TRUE
        ELSE AtLeast(Cardinality(words1 \cap words2),
                     Cardinality(words1 \cup words2), threshold)

Min(a, b) == IF a < b THEN a ELSE b

\* are_titles_similar with the overlap coefficient (intersection over the
\* smaller set) in place of the Jaccard index (intersection over union)
are_titles_similar_overlap(title1, title2, threshold) ==
    IF title1 = <<>> \/ title2 = <<>> THEN FALSE
    ELSE
    LET norm1 == normalize_title(title1)
        norm2 == normalize_title(title2)
        words1 == Range(Split(norm1)) \ stopwords
        words2 == Range(Split(norm2)) \ stopwords
        significant_words1 == {w \in words1 : Len(w) > SignificantLen}
        significant_words2 == {w \in words2 : Len(w) > SignificantLen}
    IN  IF norm1 = norm2 THEN TRUE
        ELSE IF /\ Len(norm1) > ContainLen
                /\ Len(norm2) > ContainLen
                /\ (Contains(norm2, norm1) \/ Contains(norm1, norm2))
        THEN TRUE
        ELSE IF words1 = {} \/ words2 = {} THEN FALSE
        ELSE IF /\ significant_words1 # {}
                /\ significant_words2 # {}
                /\ AtLeast(Cardinality(significant_words1 \cap significant_words2),
                           Min(Cardinality(significant_words1),
                               Cardinality(significant_words2)),
                           threshold)
        THEN TRUE
        ELSE AtLeast(Cardinality(words1 \cap words2),
                     Min(Cardinality(words1), Cardinality(words2)), threshold)

\* are_titles_similar without the test of the significant words: the last
\* step compares the Jaccard index of the full word sets only
are_titles_similar_full_only(title1, title2, threshold) ==
    IF title1 = <<>> \/ title2 = <<>> THEN FALSE
    ELSE
    LET norm1 == normalize_title(title1)
        norm2 == normalize_title(title2)
        words1 == Range(Split(norm1)) \ stopwords
        words2 == Range(Split(norm2)) \ stopwords
    IN  IF norm1 = norm2 THEN TRUE
        ELSE IF /\ Len(norm1) > ContainLen
                /\ Len(norm2) > ContainLen
                /\ (Contains(norm2, norm1) \/ Contains(norm1, norm2))
        THEN TRUE
        ELSE IF words1 = {} \/ words2 = {} THEN FALSE
        ELSE AtLeast(Cardinality(words1 \cap words2),
                     Cardinality(words1 \cup words2), threshold)

\* are_titles_similar whose containment test only asks whether the first
\* normalized title lies in the second
are_titles_similar_one_way(title1, title2, threshold) ==
    IF title1 = <<>> \/ title2 = <<>> THEN FALSE
    ELSE
    LET norm1 == normalize_title(title1)
        norm2 == normalize_title(title2)
        words1 == Range(Split(norm1)) \ stopwords
        words2 == Range(Split(norm2)) \ stopwords
        intersection == Cardinality(words1 \cap words2)
        union == Cardinality(words1 \cup words2)
        significant_words1 == {w \in words1 : Len(w) > SignificantLen}
        significant_words2 == {w \in words2 : Len(w) > SignificantLen}
    IN  IF norm1 = norm2 THEN TRUE
        ELSE IF /\ Len(norm1) > ContainLen
                /\ Len(norm2) > ContainLen
                /\ Contains(norm2, norm1)
        THEN TRUE
        ELSE IF words1 = {} \/ words2 = {} THEN FALSE
        ELSE IF union = 0 THEN FALSE
        ELSE IF /\ significant_words1 # {}
                /\ significant_words2 # {}
                /\ AtLeast(Cardinality(significant_words1 \cap significant_words2),
                           Cardinality(significant_words1 \cup significant_words2),
                           threshold)
        THEN TRUE
        ELSE AtLeast(intersection, union, threshold)

are_titles_similar(title1, title2, threshold) ==
    IF title1 = <<>> \/ title2 = <<>> THEN FALSE
    ELSE
    LET norm1 == normalize_title(title1)
        norm2 == normalize_title(title2)
        words1 == Range(Split(norm1)) \ stopwords
        words2 == Range(Split(norm2)) \ stopwords
        intersection == Cardinality(words1 \cap words2)
        union == Cardinality(words1 \cup words2)
        significant_words1 == {w \in words1 : Len(w) > SignificantLen}
        significant_words2 == {w \in words2 : Len(w) > SignificantLen}
    IN  IF norm1 = norm2 THEN TRUE
        ELSE IF /\ Len(norm1) > ContainLen
                /\ Len(norm2) > ContainLen
                /\ (Contains(norm2, norm1) \/ Contains(norm1, norm2))
        THEN TRUE
        ELSE IF words1 = {} \/ words2 = {} THEN FALSE
        ELSE IF union = 0 THEN FALSE
        ELSE IF /\ significant_words1 # {}
                /\ significant_words2 # {}
                /\ AtLeast(Cardinality(significant_words1 \cap significant_words2),
                           Cardinality(significant_words1 \cup significant_words2),
                           threshold)
        THEN TRUE
        ELSE AtLeast(intersection, union, threshold)

-----------------------------------------------------------------------------
(* The titles the specifications draw from.                                *)

T_Critical == Chars("Critical Windows Vulnerability Exploited in Wild")
T_Actively == Chars("Windows Vulnerability Being Actively Exploited")
T_Cisco == Chars("Cisco Router Patch")
T_CiscoPunct == Chars("cisco  router patch!")
T_CiscoToday == Chars("Patch Cisco Router Today")
T_CiscoUrgent == Chars("Today Patch Cisco Router Urgent")
T_Exchange == Chars("Microsoft Fixes Exchange Server Bug")
T_ExchangeLong ==
    Chars("Breaking: Microsoft Fixes Exchange Server Bug, Experts Urge Immediate Updates")
T_Stopwords == Chars("This is That")
T_Punct == Chars("?!")
T_Empty == <<>>

FixedTitles ==
    {T_Critical, T_Actively, T_Cisco, T_CiscoPunct, T_CiscoToday, T_CiscoUrgent,
     T_Exchange, T_ExchangeLong, T_Stopwords, T_Punct, T_Empty}

\* a letter, a capital, a blank and a punctuation mark
GenAlphabet == {"a", "B", " ", "!"}

\* every string over GenAlphabet of length at most n
GenTitles(n) == UNION {[1..k -> GenAlphabet] : k \in 0..n}

TitlePool == FixedTitles \cup GenTitles(MaxGenLen)

\* thresholds are_titles_similar is called with: the default, and two others
Thresholds == {DefaultThreshold, <<1, 2>>, <<1, 1>>}

-----------------------------------------------------------------------------
(* deduplicate_articles.                                                   *)

\* dict.get(key, default)
Get(d, key, default) == IF key \in DOMAIN d THEN d[key] ELSE default

\* the loop of deduplicate_articles from article i on; seen_titles holds the
\* titles of the articles accepted so far
RECURSIVE DedupeLoop(_, _, _, _)
DedupeLoop(articles, i, unique_articles, seen_titles) ==
    IF i > Len(articles) THEN unique_articles
    ELSE
    LET article == articles[i]
        title == Get(article, "title", <<>>)
        is_duplicate ==
            \E k \in 1..Len(seen_titles) :
                are_titles_similar(title, seen_titles[k], DefaultThreshold)
    IN  IF is_duplicate
        THEN DedupeLoop(articles, i + 1, unique_articles, seen_titles)
        ELSE DedupeLoop(articles, i + 1, Append(unique_articles, article),
                        Append(seen_titles, title))

\* the loop with seen_titles holding only the title examined last, whether
\* its article was accepted or not
RECURSIVE DedupeLoopLastSeen(_, _, _, _)
DedupeLoopLastSeen(articles, i, unique_articles, seen_titles) ==
    IF i > Len(articles) THEN unique_articles
    ELSE
    LET article == articles[i]
        title == Get(article, "title", <<>>)
        is_duplicate ==
            \E k \in 1..Len(seen_titles) :
                are_titles_similar(title, seen_titles[k], DefaultThreshold)
    IN  DedupeLoopLastSeen(articles, i + 1,
            IF is_duplicate THEN unique_articles ELSE Append(unique_articles, article),
            <<title>>)

deduplicate_articles_last_seen(articles) ==
    IF articles = <<>> THEN articles ELSE DedupeLoopLastSeen(articles, 1, <<>>, <<>>)

\* the loop where a later duplicate replaces the article it duplicates
RECURSIVE DedupeLoopKeepLast(_, _, _, _)
DedupeLoopKeepLast(articles, i, unique_articles, seen_titles) ==
    IF i > Len(articles) THEN unique_articles
    ELSE
    LET article == articles[i]
        title == Get(article, "title", <<>>)
        dup == {k \in 1..Len(seen_titles) :
                    are_titles_similar(title, seen_titles[k], DefaultThreshold)}
    IN  IF dup # {}
        THEN LET k == CHOOSE k \in dup : \A j \in dup : k <= j
             IN  DedupeLoopKeepLast(articles, i + 1,
                     [unique_articles EXCEPT ![k] = article],
                     [seen_titles EXCEPT ![k] = title])
        ELSE DedupeLoopKeepLast(articles, i + 1, Append(unique_articles, article),
                                Append(seen_titles, title))

deduplicate_articles_keep_last(articles) ==
    IF articles = <<>> THEN articles ELSE DedupeLoopKeepLast(articles, 1, <<>>, <<>>)

\* the loop where the title of a dropped article is recorded as seen too
RECURSIVE DedupeLoopAllSeen(_, _, _, _)
DedupeLoopAllSeen(articles, i, unique_articles, seen_titles) ==
    IF i > Len(articles) THEN unique_articles
    ELSE
    LET article == articles[i]
        title == Get(article, "title", <<>>)
        is_duplicate ==
            \E k \in 1..Len(seen_titles) :
                are_titles_similar(title, seen_titles[k], DefaultThreshold)
    IN  DedupeLoopAllSeen(articles, i + 1,
            IF is_duplicate THEN unique_articles ELSE Append(unique_articles, article),
            Append(seen_titles, title))

deduplicate_articles_all_seen(articles) ==
    IF articles = <<>> THEN articles ELSE DedupeLoopAllSeen(articles, 1, <<>>, <<>>)

deduplicate_articles(articles) ==
    IF articles = <<>> THEN articles ELSE DedupeLoop(articles, 1, <<>>, <<>>)

-----------------------------------------------------------------------------
(* extract_tags_and_urgency, generate_slug and save_articles_to_json.      *)

\* tag_keywords, in the insertion order of the dict
tag_keywords ==
    << <<"vulnerability", <<"vulnerability", "cve", "exploit", "patch">> >>,
       <<"malware", <<"malware", "trojan", "virus", "backdoor">> >>,
       <<"phishing", <<"phishing", "smishing", "social engineering">> >>,
       <<"ransomware", <<"ransomware", "encryption", "decrypt">> >>,
       <<"breach", <<"breach", "leak", "data exposure", "compromised">> >>,
       <<"apt", <<"apt", "nation-state", "espionage", "government">> >>,
       <<"attack", <<"attack", "campaign", "targeting">> >>,
       <<"critical", <<"critical", "zero-day", "actively exploited">> >> >>

high_keywords == <<"critical", "zero-day", "actively exploited", "emergency">>
\* the Medium keywords with one that stands in no tag's keyword list
medium_keywords_untagged == <<"exploit", "breach", "ransomware", "attack", "sales">>
medium_keywords == <<"exploit", "breach", "ransomware", "attack">>

\* any(kw in text for kw in keywords)
AnyKeywordIn(text, keywords) ==
    \E k \in 1..Len(keywords) : Contains(text, Chars(keywords[k]))

\* title + " " + summary, both lower-cased
ClassifyText(article) ==
    Lower(article["title"]) \o <<" ">> \o Lower(Get(article, "summary", <<>>))

\* the tags whose keywords occur in text, in the order of tag_keywords
RECURSIVE MatchingTags(_, _)
MatchingTags(text, i) ==
    IF i > Len(tag_keywords) THEN <<>>
    ELSE (IF AnyKeywordIn(text, tag_keywords[i][2])
          THEN <<tag_keywords[i][1]>> ELSE <<>>) \o MatchingTags(text, i + 1)

\* extract_tags_and_urgency with the default tag filled in by the classifier
extract_tags_and_urgency_with_default(article) ==
    LET text == ClassifyText(article)
        tags == MatchingTags(text, 1)
    IN  [tags |-> IF tags = <<>> THEN <<"cybersecurity">> ELSE tags,
         urgency |-> IF AnyKeywordIn(text, high_keywords) THEN "High"
                     ELSE IF AnyKeywordIn(text, medium_keywords) THEN "Medium"
                     ELSE "Low"]

\* extract_tags_and_urgency with an urgency that stays unset when no keyword
\* of either list occurs
extract_tags_and_urgency_no_low(article) ==
    LET text == ClassifyText(article)
    IN  [tags |-> MatchingTags(text, 1),
         urgency |-> IF AnyKeywordIn(text, high_keywords) THEN "High"
                     ELSE IF AnyKeywordIn(text, medium_keywords) THEN "Medium"
                     ELSE "None"]

\* extract_tags_and_urgency that tests the Medium keywords before the High
\* ones
extract_tags_and_urgency_medium_first(article) ==
    LET text == ClassifyText(article)
    IN  [tags |-> MatchingTags(text, 1),
         urgency |-> IF AnyKeywordIn(text, medium_keywords) THEN "Medium"
                     ELSE IF AnyKeywordIn(text, high_keywords) THEN "High"
                     ELSE "Low"]

\* the pair (tags, urgency) that extract_tags_and_urgency returns, for an
\* article that has a title
extract_tags_and_urgency(article) ==
    LET text == ClassifyText(article)
    IN  [tags |-> MatchingTags(text, 1),
         urgency |-> IF AnyKeywordIn(text, high_keywords) THEN "High"
                     ELSE IF AnyKeywordIn(text, medium_keywords) THEN "Medium"
                     ELSE "Low"]

\* the longest slug
SlugLen == 50

SlugKeep(c) == IsWord(c) \/ IsSpace(c) \/ c = "-"
SlugSep(c) == IsSpace(c) \/ c = "-"

\* re.sub(r'[-\s]+', '-', s): every run of hyphens and whitespace becomes "-"
CollapseSeps(s) ==
    LET kept == {i \in 1..Len(s) : ~SlugSep(s[i]) \/ i = 1 \/ ~SlugSep(s[i - 1])}
        collapsed == [i \in 1..Len(s) |-> IF SlugSep(s[i]) THEN "-" ELSE s[i]]
    IN  AtIndices(collapsed, kept)

generate_slug(title) ==
    Prefix(CollapseSeps(SelectSeq(Lower(title), SlugKeep)), SlugLen)

\* calendar day n of 2025 (1 = January 1st) as strftime("%Y-%m-%d") prints it,
\* for the days of January, February and March
TwoDigits(n) == <<DigitSeq[(n \div 10) + 1], DigitSeq[(n % 10) + 1]>>
DateStr(n) ==
    Chars("2025-") \o
    (IF n <= 31 THEN Chars("01-") \o TwoDigits(n)
     ELSE IF n <= 59 THEN Chars("02-") \o TwoDigits(n - 31)
     ELSE Chars("03-") \o TwoDigits(n - 59))

\* the contents a file of news/ can have
Absent == [kind |-> "absent"]
Malformed == [kind |-> "malformed"]

\* the item save_articles_to_json builds for one article
SnapshotItem(article, date_str) ==
    LET c == extract_tags_and_urgency(article)
    IN  [title |-> article["title"],
         link |-> article["link"],
         summary |-> Get(article, "summary", <<>>),
         tags |-> IF c.tags # <<>> THEN c.tags ELSE <<"cybersecurity">>,
         urgency |-> c.urgency,
         slug |-> generate_slug(article["title"]),
         source |-> Get(article, "source", Chars("Unknown")),
         date |-> date_str]

\* the item with the tags as the classifier returns them
SnapshotItemRawTags(article, date_str) ==
    [SnapshotItem(article, date_str) EXCEPT
        !.tags = extract_tags_and_urgency(article).tags]

\* building the items raises KeyError for an article without title or link
ItemsRaise(articles) ==
    \E i \in 1..Len(articles) :
        "title" \notin DOMAIN articles[i] \/ "link" \notin DOMAIN articles[i]

\* the data save_articles_to_json dumps, with the items built by Item
SnapshotOfWith(articles, day, Item(_, _)) ==
    [kind |-> "snapshot",
     date |-> DateStr(day),
     items |-> [i \in 1..Len(articles) |-> Item(articles[i], DateStr(day))]]

SnapshotOfRawTags(articles, day) == SnapshotOfWith(articles, day, SnapshotItemRawTags)

\* the dump that keeps the items the file of the day already holds and adds
\* the new ones after them
SnapshotOfMerged(articles, day) ==
    LET fresh == SnapshotOfWith(articles, day, SnapshotItem)
        old == IF day \in DOMAIN news /\ news[day].kind = "snapshot"
               THEN news[day].items ELSE <<>>
    IN  [fresh EXCEPT !.items = old \o fresh.items]

SnapshotOf(articles, day) == SnapshotOfWith(articles, day, SnapshotItem)

-----------------------------------------------------------------------------
(* generate_trends.py: Counter, extract_domain, extract_keywords.          *)

\* a Counter / dict: a sequence of <<key, count>> in insertion order
Keys(counter) == {counter[i][1] : i \in 1..Len(counter)}

\* counter[key]: 0 for a missing key
CountOf(counter, key) ==
    IF key \in Keys(counter)
    THEN counter[CHOOSE i \in 1..Len(counter) : counter[i][1] = key][2]
    ELSE 0

\* the Counter that counting the keys of a list one after the other builds:
\* the distinct keys in the order of their first occurrence, each with the
\* number of its occurrences
CounterOf(keys) ==
    LET firsts == {i \in 1..Len(keys) : \A j \in 1..(i - 1) : keys[j] # keys[i]}
        Times(key) == Cardinality({j \in 1..Len(keys) : keys[j] = key})
        distinct == AtIndices(keys, firsts)
    IN  List([k \in 1..Len(distinct) |-> <<distinct[k], Times(distinct[k])>>])

\* the concatenation of the lists of a list
Concat(lists) ==
    LET F[i \in 0..Len(lists)] == IF i = 0 THEN <<>> ELSE F[i - 1] \o lists[i]
    IN  F[Len(lists)]

\* the list with the elements of s, each at the place `place` gives its index
Permute(s, place) ==
    List([p \in 1..Len(s) |-> s[CHOOSE i \in 1..Len(s) : place[i] = p]])

\* sorted(s, key=..., reverse=True): descending and stable, Geq(a, b) saying
\* that the key of a is at least the key of b; an element comes after those
\* with a greater key and those before it in s with the same key
StableSortDesc(s, Geq(_, _)) ==
    LET place == List([i \in 1..Len(s) |->
                    1 + Cardinality({j \in 1..Len(s) :
                            \/ ~Geq(s[i], s[j])
                            \/ j < i /\ Geq(s[j], s[i])})])
    IN  Permute(s, place)

CountGeq(a, b) == a[2] >= b[2]

\* dict(counter.most_common(n))
most_common(counter, n) == Prefix(StableSortDesc(counter, CountGeq), n)

\* the characters the strings of the model are made of, in code-point order
AsciiSeq ==
    Chars(" !#,-./0123456789:?ABCDEFGHIJKLMNOPQRSTUVWXYZ_abcdefghijklmnopqrstuvwxyz")

Ord(c) == CHOOSE i \in DOMAIN AsciiSeq : AsciiSeq[i] = c

\* a < b for Python strings: lexicographic by code point
StrLess(a, b) ==
    LET differ == {i \in 1..Min(Len(a), Len(b)) : a[i] # b[i]}
        first == CHOOSE i \in differ : \A j \in differ : i <= j
    IN  IF differ = {} THEN Len(a) < Len(b)
        ELSE Ord(a[first]) < Ord(b[first])

StrGeq(a, b) == ~StrLess(a, b)

\* the index of the first occurrence of sub in s at or after i, 0 if none
FindFrom(s, sub, i) ==
    LET hits == {k \in i..(Len(s) - Len(sub) + 1) : SubSeq(s, k, k + Len(sub) - 1) = sub}
    IN  IF hits = {} THEN 0 ELSE CHOOSE k \in hits : \A h \in hits : k <= h

StartsWith(s, pre) == Len(s) >= Len(pre) /\ SubSeq(s, 1, Len(pre)) = pre

\* s up to the first character of stops, all of s if there is none
UpTo(s, stops) ==
    LET hits == {k \in 1..Len(s) : s[k] \in stops}
    IN  IF hits = {} THEN s
        ELSE SubSeq(s, 1, (CHOOSE k \in hits : \A h \in hits : k <= h) - 1)

\* extract_domain: urlparse splits "scheme://netloc/path?query#fragment"; the
\* domain is the netloc, or the path of a URL without "//", with a leading
\* "www." removed and cut at the first "/"; "unknown" if that is empty
extract_domain(url) ==
    LET sep == FindFrom(url, Chars("://"), 1)
        after == IF sep > 0 THEN SubSeq(url, sep + 3, Len(url)) ELSE <<>>
        netloc == UpTo(after, {"/", "?", "#"})
        path == IF sep > 0 THEN <<>> ELSE UpTo(url, {"?", "#"})
        raw == IF netloc # <<>> THEN netloc ELSE path
        nowww == IF StartsWith(raw, Chars("www.")) THEN SubSeq(raw, 5, Len(raw)) ELSE raw
        domain == UpTo(nowww, {"/"})
    IN  IF domain # <<>> THEN domain ELSE Chars("unknown")

\* the stopwords of extract_keywords
STOPWORDS ==
    { Chars(w) : w \in
       {"the", "be", "to", "of", "and", "a", "in", "that", "have", "i",
        "it", "for", "not", "on", "with", "he", "as", "you", "do", "at",
        "this", "but", "his", "by", "from", "they", "we", "say", "her", "she",
        "or", "an", "will", "my", "one", "all", "would", "there", "their",
        "what", "so", "up", "out", "if", "about", "who", "get", "which", "go",
        "me", "when", "make", "can", "like", "time", "no", "just", "him", "know",
        "take", "people", "into", "year", "your", "good", "some", "could", "them",
        "see", "other", "than", "then", "now", "look", "only", "come", "its", "over",
        "think", "also", "back", "after", "use", "two", "how", "our", "work",
        "first", "well", "way", "even", "new", "want", "because", "any", "these",
        "give", "day", "most", "us", "is", "was", "are", "been", "has", "had",
        "were", "said", "did", "having", "may", "should", "am", "being", "more"} }

\* the default of min_length
MinKeywordLen == 3

\* the maximal runs of \w characters of s, in order
WordRuns(s) == Runs(s, IsWord)

AllLower(w) == \A i \in 1..Len(w) : w[i] \in LowerSet
IsKeyword(w) == AllLower(w) /\ w \notin STOPWORDS /\ Len(w) >= MinKeywordLen

\* extract_keywords: re.findall(r'\b[a-z]+\b', text.lower()) finds the runs of
\* \w characters that consist of the letters a-z only
extract_keywords(text) == SelectSeq(WordRuns(Lower(text)), IsKeyword)

-----------------------------------------------------------------------------
(* generate_trends.py: compute_metrics.                                    *)

\* the value of a "tags" key that is not a list (a string, null), which
\* compute_metrics does not count
TagsNotAList == <<"#not-a-list">>
IsList(tags) == tags # TagsNotAList

\* the sizes of the top-N selections
TopTagsLen == 20
TopSourcesLen == 10
TopKeywordsLen == 20
TopArticlesLen == 10
\* the longest summary of a top article
TopSummaryLen == 200
\* the windows of main, in days
Window7 == 7
Window30 == 30

\* the Counter of the tags of the items of days, the tags of an item counted
\* when they are a list
tag_counts(days) ==
    CounterOf(Concat(List([i \in 1..Len(days) |->
        LET tags == Get(days[i], "tags", <<>>)
        IN  IF IsList(tags) THEN tags ELSE <<>>])))

\* the urgency Counter with the three levels entered at 0 before counting
urgency_counts_seeded(days) ==
    LET seeds == <<"High", "Medium", "Low">>
        counts == CounterOf(seeds \o [i \in 1..Len(days) |->
                                        Get(days[i], "urgency", "Medium")])
    IN  List([k \in 1..Len(counts) |->
            <<counts[k][1], counts[k][2] - (IF k <= Len(seeds) THEN 1 ELSE 0)>>])

\* the urgency Counter that skips the items without an "urgency" key
urgency_counts_no_default(days) ==
    LET HasUrgency(item) == "urgency" \in DOMAIN item
        with_urgency == SelectSeq(days, HasUrgency)
    IN  CounterOf(List([i \in 1..Len(with_urgency) |-> with_urgency[i]["urgency"]]))

\* the Counter of the urgency of the items of days, "Medium" for an item
\* without one
urgency_counts(days) ==
    CounterOf(List([i \in 1..Len(days) |-> Get(days[i], "urgency", "Medium")]))

\* the Counter of the sources: the "source" of an item, or the domain of its
\* link when the source is missing or empty
source_counts(days_30) ==
    CounterOf(List([i \in 1..Len(days_30) |->
        LET source == Get(days_30[i], "source", <<>>)
        IN  IF source # <<>> THEN source
            ELSE extract_domain(Get(days_30[i], "link", <<>>))]))

\* the Counter of the keywords of "title summary" of every item
keyword_counter(days_30) ==
    CounterOf(Concat(List([i \in 1..Len(days_30) |->
        extract_keywords(Get(days_30[i], "title", <<>>) \o <<" ">>
                         \o Get(days_30[i], "summary", <<>>))])))

\* sorted(daily_counts.items()): the dates are distinct, so ascending by date
SortByDate(counter) ==
    LET place == List([i \in 1..Len(counter) |->
                    1 + Cardinality({j \in 1..Len(counter) :
                            StrLess(counter[j][1], counter[i][1])})])
    IN  Permute(counter, place)

\* daily_counts left in the order in which the dates were first met
daily_counts_unsorted(days_30) ==
    LET NonEmpty(date) == date # <<>>
        dates == SelectSeq([i \in 1..Len(days_30) |-> Get(days_30[i], "date", <<>>)],
                           NonEmpty)
        counter == CounterOf(dates)
    IN  List([i \in 1..Len(counter) |->
            [date |-> counter[i][1], count |-> counter[i][2]]])

\* daily_counts that looks at the clock: only the dates of the last week
daily_counts_of_last_week(days_30) ==
    LET Counted(date) == date # <<>> /\ StrGeq(date, DateStr(today - Window7))
        dates == SelectSeq([i \in 1..Len(days_30) |-> Get(days_30[i], "date", <<>>)],
                           Counted)
        sorted_daily == SortByDate(CounterOf(dates))
    IN  List([i \in 1..Len(sorted_daily) |->
            [date |-> sorted_daily[i][1], count |-> sorted_daily[i][2]]])

\* the number of items per non-empty date, ascending by date
daily_counts(days_30) ==
    LET NonEmpty(date) == date # <<>>
        dates == SelectSeq([i \in 1..Len(days_30) |-> Get(days_30[i], "date", <<>>)],
                           NonEmpty)
        sorted_daily == SortByDate(CounterOf(dates))
    IN  List([i \in 1..Len(sorted_daily) |->
            [date |-> sorted_daily[i][1], count |-> sorted_daily[i][2]]])

\* urgency_priority.get(x.get('urgency', 'Medium'), 2)
PriorityHigh == 3
PriorityMedium == 2
PriorityLow == 1
PriorityDefault == 2
urgency_priority(item) ==
    LET urgency == Get(item, "urgency", "Medium")
    IN  IF urgency = "High" THEN PriorityHigh
        ELSE IF urgency = "Medium" THEN PriorityMedium
        ELSE IF urgency = "Low" THEN PriorityLow
        ELSE PriorityDefault

\* the sort key (priority, date) of a is at least that of b
TopKeyGeq(a, b) ==
    \/ urgency_priority(a) > urgency_priority(b)
    \/ /\ urgency_priority(a) = urgency_priority(b)
       /\ StrGeq(Get(a, "date", <<>>), Get(b, "date", <<>>))

\* the first ten items in input order, as summaries
top_articles_unsorted(items) ==
    LET top == Prefix(items, TopArticlesLen)
    IN  [i \in 1..Len(top) |->
            [title |-> Get(top[i], "title", Chars("Untitled")),
             link |-> Get(top[i], "link", Chars("#")),
             summary |-> Prefix(Get(top[i], "summary", <<>>), TopSummaryLen),
             urgency |-> Get(top[i], "urgency", "Medium"),
             date |-> Get(top[i], "date", <<>>),
             tags |-> Get(top[i], "tags", <<>>)]]

\* the first ten items by urgency, then date, both descending, as summaries
top_articles(items) ==
    LET top == Prefix(StableSortDesc(items, TopKeyGeq), TopArticlesLen)
    IN  [i \in 1..Len(top) |->
            [title |-> Get(top[i], "title", Chars("Untitled")),
             link |-> Get(top[i], "link", Chars("#")),
             summary |-> Prefix(Get(top[i], "summary", <<>>), TopSummaryLen),
             urgency |-> Get(top[i], "urgency", "Medium"),
             date |-> Get(top[i], "date", <<>>),
             tags |-> Get(top[i], "tags", <<>>)]]

\* a dict with the keys '7_days' and '30_days'
Windows(d7, d30) == ("7_days" :> d7) @@ ("30_days" :> d30)

\* tag_counts_30.most_common(1)[0][0] evaluated without the test that
\* tag_counts_30 is not empty: an IndexError when it is
top_tag_unguarded(tag_counts_30) ==
    IF tag_counts_30 # <<>> THEN most_common(tag_counts_30, 1)[1][1] ELSE "IndexError"

\* top_tag that takes the last of the tags counted most often
top_tag_last_max(tag_counts_30) ==
    LET at_max == {i \in 1..Len(tag_counts_30) :
                     \A j \in 1..Len(tag_counts_30) :
                         tag_counts_30[j][2] <= tag_counts_30[i][2]}
    IN  IF tag_counts_30 # <<>>
        THEN tag_counts_30[CHOOSE i \in at_max : \A j \in at_max : j <= i][1]
        ELSE "N/A"

\* the tag counted most often, "N/A" when no tag was counted
top_tag(tag_counts_30) ==
    IF tag_counts_30 # <<>> THEN most_common(tag_counts_30, 1)[1][1] ELSE "N/A"

\* the dict compute_metrics returns; last_update is the reading of the clock,
\* of which the model keeps the day
\* compute_metrics whose totals count only the items that have a title and a
\* link
compute_metrics_complete_only(items, days_7, days_30) ==
    LET Complete(item) == "title" \in DOMAIN item /\ "link" \in DOMAIN item
    IN  [tag_counts |-> Windows(most_common(tag_counts(days_7), TopTagsLen),
                                most_common(tag_counts(days_30), TopTagsLen)),
         urgency_counts |-> Windows(urgency_counts(days_7), urgency_counts(days_30)),
         top_sources |-> most_common(source_counts(days_30), TopSourcesLen),
         top_keywords |-> most_common(keyword_counter(days_30), TopKeywordsLen),
         daily_counts |-> daily_counts(days_30),
         top_articles |-> top_articles(items),
         kpis |-> [total_7_days |-> Len(SelectSeq(days_7, Complete)),
                   total_30_days |-> Len(SelectSeq(days_30, Complete)),
                   top_tag |-> top_tag(tag_counts(days_30)),
                   last_update |-> DateStr(today)]]

compute_metrics(items, days_7, days_30) ==
    [tag_counts |-> Windows(most_common(tag_counts(days_7), TopTagsLen),
                            most_common(tag_counts(days_30), TopTagsLen)),
     urgency_counts |-> Windows(urgency_counts(days_7), urgency_counts(days_30)),
     top_sources |-> most_common(source_counts(days_30), TopSourcesLen),
     top_keywords |-> most_common(keyword_counter(days_30), TopKeywordsLen),
     daily_counts |-> daily_counts(days_30),
     top_articles |-> top_articles(items),
     kpis |-> [total_7_days |-> Len(days_7),
               total_30_days |-> Len(days_30),
               top_tag |-> top_tag(tag_counts(days_30)),
               last_update |-> DateStr(today)]]

\* the metrics main writes when no news item was loaded
empty_metrics ==
    [tag_counts |-> Windows(<<>>, <<>>),
     urgency_counts |-> Windows(<<>>, <<>>),
     top_sources |-> <<>>,
     top_keywords |-> <<>>,
     daily_counts |-> <<>>,
     top_articles |-> <<>>,
     kpis |-> [total_7_days |-> 0,
               total_30_days |-> 0,
               top_tag |-> "N/A",
               last_update |-> DateStr(today)]]

\* the items of all_items dated at or after the day `window` days before today
ItemsSince(all_items, window) ==
    LET date_ago == DateStr(today - window)
        Recent(item) == StrGeq(Get(item, "date", <<>>), date_ago)
    IN  SelectSeq(all_items, Recent)

\* further contents of a file of news/: a JSON list of items, valid JSON of
\* another structure (a dict without 'items', a string, a number, null), a
\* dict whose 'items' is null or a number, and a dict whose 'items' is itself
\* a dict, of which the loop sees the keys
BareList(items) == [kind |-> "list", items |-> items]
OtherJson == [kind |-> "other"]
ItemsNotIterable == [kind |-> "items_not_iterable"]
ItemsDict(keys) == [kind |-> "items_dict", items |-> keys]

\* an element of items that is not a dict: `'date' not in item` is False for
\* a string or list holding 'date', and the element is then left alone;
\* otherwise the test or the assignment item['date'] = ... raises TypeError
NotADict(has_date) == [not_a_dict |-> TRUE, has_date |-> has_date]
IsDict(item) == "not_a_dict" \notin DOMAIN item
RaisesTypeError(item) == ~IsDict(item) /\ ~item.has_date

\* item after `if 'date' not in item: item['date'] = date_str`
WithDate(item, date_str) ==
    IF IsDict(item) /\ "date" \notin DOMAIN item
    THEN [k \in DOMAIN item \cup {"date"} |->
            IF k = "date" THEN date_str ELSE item[k]]
    ELSE item

\* what the file of one date adds to all_items: nothing when json.load
\* raises, when the structure is unexpected or when the loop over a list
\* raises; the items of a list, dated, when it does not; for 'items' that is
\* a dict, each key the loop passes and, if it passes them all, all the keys
\* once more
LoadFile(data, date_str) ==
    LET items == IF data.kind \in {"snapshot", "list", "items_dict"}
                 THEN data.items ELSE <<>>
        raising == {i \in 1..Len(items) : RaisesTypeError(items[i])}
        dated == List([i \in 1..Len(items) |-> WithDate(items[i], date_str)])
    IN  IF data.kind \in {"snapshot", "list"}
        THEN IF raising = {} THEN dated ELSE <<>>
        ELSE IF data.kind = "items_dict"
        THEN IF raising = {} THEN dated \o dated
             ELSE SubSeq(dated, 1,
                         (CHOOSE i \in raising : \A j \in raising : i <= j) - 1)
        ELSE <<>>

\* the dates the loop visits: start_date = now - days up to end_date = now
LoadWindow(days) ==
    IF days < 0 THEN <<>>
    ELSE List([i \in 1..(days + 1) |-> today - days + i - 1])

\* the loop breaks off at the first file that cannot be loaded
load_news_files_stop_on_error(dir_exists, files, days) ==
    LET window == LoadWindow(days)
        Bad(d) == files[d].kind \notin {"absent", "snapshot", "list"}
        bad == {i \in 1..Len(window) : Bad(window[i])}
        upto == IF bad = {} THEN Len(window)
                ELSE (CHOOSE i \in bad : \A j \in bad : i <= j) - 1
    IN  IF ~dir_exists THEN <<>>
        ELSE Concat([i \in 1..upto |->
                        LoadFile(files[window[i]], DateStr(window[i]))])

\* the window starts one day later: exactly `days` dates
load_news_files_last_days(dir_exists, files, days) ==
    LET window == LoadWindow(days - 1)
    IN  IF ~dir_exists THEN <<>>
        ELSE Concat([i \in 1..Len(window) |->
                        LoadFile(files[window[i]], DateStr(window[i]))])

\* load_news_files(news_dir, days): the items of the files of the window, in
\* the order of the dates; [] when the directory does not exist
load_news_files(dir_exists, files, days) ==
    LET window == LoadWindow(days)
    IN  IF ~dir_exists THEN <<>>
        ELSE Concat([i \in 1..Len(window) |->
                        LoadFile(files[window[i]], DateStr(window[i]))])

\* None as the value of a field of an item (JSON null)
NoneValue == "<None>"

\* the key json.dump writes for a dict key: a str as it is, None as "null"
JsonKey(key) == IF key = NoneValue THEN "null" ELSE key

\* the members json.dump writes for a dict with tags or urgencies as keys
JsonObject(dict) ==
    List([i \in 1..Len(dict) |-> <<JsonKey(dict[i][1]), dict[i][2]>>])

\* the dict json.load builds from the members of an object: one entry per
\* key, at the place of the key's first member, with the value of its last
LoadObject(members) ==
    LET firsts == {i \in 1..Len(members) :
                     \A j \in 1..(i - 1) : members[j][1] # members[i][1]}
        Last(key) == CHOOSE i \in 1..Len(members) :
                        /\ members[i][1] = key
                        /\ \A j \in (i + 1)..Len(members) : members[j][1] # key
        distinct == AtIndices(members, firsts)
    IN  List([k \in 1..Len(distinct) |->
                <<distinct[k][1], members[Last(distinct[k][1])][2]>>])

\* the file written without turning the keys into JSON keys
json_dump_keys_kept(metrics) == [kind |-> "json", doc |-> metrics]

\* the file json.dump(metrics, f, indent=2, ensure_ascii=False) writes: the
\* dicts keyed by tag or urgency as objects; the dicts keyed by source,
\* keyword or field name, the lists, strings and numbers as they are
json_dump(metrics) ==
    [kind |-> "json",
     doc |-> [metrics EXCEPT
        !.tag_counts = Windows(JsonObject(metrics.tag_counts["7_days"]),
                               JsonObject(metrics.tag_counts["30_days"])),
        !.urgency_counts = Windows(JsonObject(metrics.urgency_counts["7_days"]),
                                   JsonObject(metrics.urgency_counts["30_days"]))]]

\* json.load of a file json.dump wrote
json_load(file) ==
    [file.doc EXCEPT
        !.tag_counts = Windows(LoadObject(file.doc.tag_counts["7_days"]),
                               LoadObject(file.doc.tag_counts["30_days"])),
        !.urgency_counts = Windows(LoadObject(file.doc.urgency_counts["7_days"]),
                                   LoadObject(file.doc.urgency_counts["30_days"]))]

\* save_metrics that starts from an emptied directory: the archives of the
\* other days are gone
StatsWrittenAfresh(dir, metrics) ==
    [latest |-> json_dump(metrics),
     archive |-> [d \in DOMAIN dir.archive |->
                    IF d = today THEN json_dump(metrics) ELSE Absent]]

\* the stats/ directory after save_metrics wrote trends.json and the
\* archive of today
StatsWritten(dir, metrics) ==
    [latest |-> json_dump(metrics),
     archive |-> [dir.archive EXCEPT ![today] = json_dump(metrics)]]

-----------------------------------------------------------------------------
(* The articles the specifications draw from: what a fetcher returns       *)
(* (title, link, summary, source), and dicts that lack a key.              *)

Article(title, link, summary, source) ==
    [title |-> title, link |-> Chars(link), summary |-> Chars(summary),
     source |-> Chars(source)]

A_Critical ==
    Article(T_Critical, "https://thehackernews.com/a1",
            "A critical vulnerability in Windows is being actively exploited",
            "The Hacker News")
A_Actively ==
    Article(T_Actively, "https://www.securityweek.com/a2", "", "SecurityWeek")
A_Cisco ==
    Article(T_Cisco, "https://www.securityweek.com/a3", "", "SecurityWeek")
A_CiscoPunct ==
    Article(T_CiscoPunct, "https://www.bleepingcomputer.com/a4",
            "Ransomware campaign hits unpatched routers", "BleepingComputer")
A_CiscoToday ==
    Article(T_CiscoToday, "https://thehackernews.com/a5",
            "Emergency fix after a data breach", "The Hacker News")
A_CiscoUrgent ==
    Article(T_CiscoUrgent, "https://thehackernews.com/a6", "", "The Hacker News")
A_Stopwords ==
    Article(T_Stopwords, "https://www.securityweek.com/a7", "", "SecurityWeek")
A_Punct ==
    Article(T_Punct, "https://www.bleepingcomputer.com/a8", "Laptop sales",
            "BleepingComputer")
A_EmptyTitle ==
    Article(T_Empty, "https://www.bleepingcomputer.com/a9", "", "BleepingComputer")
\* a dict without the key "title"
A_NoTitle == [link |-> Chars("https://example.com/a10"), source |-> Chars("Feed")]

ArticlePool ==
    {A_Critical, A_Actively, A_Cisco, A_CiscoPunct, A_CiscoToday, A_CiscoUrgent,
     A_Stopwords, A_Punct, A_EmptyTitle, A_NoTitle}

\* an article for save_articles_to_json that lacks the key "link"
A_NoLink == [title |-> T_Cisco, summary |-> <<>>, source |-> Chars("Feed")]

\* the summaries the classifier is tried on
Summaries ==
    { Chars(x) : x \in
        {"", "A critical vulnerability in Windows is being actively exploited",
         "Ransomware campaign hits unpatched routers",
         "Emergency fix after a data breach", "Laptop sales",
         "Zero-Day flaw found"} }

\* every title of the pool with every summary, and with no summary at all
ClassifyArticles ==
    { [title |-> t, link |-> Chars("https://example.com/a"), summary |-> x,
       source |-> Chars("Feed")] : t \in TitlePool, x \in Summaries }
    \cup
    { [title |-> t, link |-> Chars("https://example.com/a"),
       source |-> Chars("Feed")] : t \in TitlePool }

\* the articles the snapshot writer is tried on
SnapshotPool == {A_Critical, A_CiscoPunct, A_Stopwords, A_NoLink}

\* the calendar days of the runs of the snapshot writer: FirstDay and the next
SnapshotDays == {FirstDay, FirstDay + 1}

\* the news items compute_metrics is tried on: complete items dated inside,
\* at the edge of and outside the two windows of main, and items that lack
\* keys
I_Malware ==
    [title |-> Chars("New Malware Found"),
     link |-> Chars("https://www.example.com/article1"),
     summary |-> Chars("Critical vulnerability malware attack security breach"),
     tags |-> <<"malware", "vulnerability">>, urgency |-> "High",
     date |-> DateStr(MetricsToday)]
I_Phishing ==
    [title |-> Chars("Phishing Wave"), link |-> Chars("https://thehackernews.com/a2"),
     summary |-> <<>>, tags |-> <<"phishing">>, urgency |-> "Medium",
     source |-> Chars("The Hacker News"), date |-> DateStr(MetricsToday - Window7)]
I_Old ==
    [title |-> Chars("Old Malware"), link |-> Chars("securityweek.com/a3"),
     summary |-> Chars("The malware is back"), tags |-> <<"malware">>,
     urgency |-> "Low", date |-> DateStr(MetricsToday - Window7 - 1)]
I_Edge30 ==
    [title |-> Chars("Phishing and Malware"), link |-> Chars("https://example.com"),
     tags |-> <<"phishing", "malware">>, urgency |-> "Low",
     date |-> DateStr(MetricsToday - Window30)]
I_Odd ==
    [title |-> Chars("Odd"), tags |-> TagsNotAList, urgency |-> "Critical",
     source |-> <<>>, date |-> DateStr(MetricsToday - Window30 - 1)]
\* an item whose urgency is null in the snapshot file
I_NullUrgency ==
    [title |-> Chars("Null Urgency"), link |-> Chars("https://example.com/n"),
     tags |-> <<"malware">>, urgency |-> NoneValue, date |-> DateStr(MetricsToday)]
I_TitleOnly == [title |-> Chars("Test")]
I_LinkOnly == [link |-> Chars("https://example.com")]
I_Empty == [k \in {} |-> k]

ItemPool ==
    {I_Malware, I_Phishing, I_Old, I_Edge30, I_Odd, I_TitleOnly, I_LinkOnly, I_Empty}

\* str(i) for 0 <= i < 100
Str(i) == IF i < 10 THEN <<DigitSeq[i + 1]>> ELSE TwoDigits(i)

\* the number of items of the fixture sample_items, and of each of its three
\* urgency buckets
SampleLen == 30
SampleBucket == 10

\* the fixture sample_items of the tests of compute_metrics
SampleItems ==
    [n \in 1..SampleLen |->
        LET i == n - 1
        IN  [title |-> Chars("Test Article ") \o Str(i),
             link |-> Chars("https://example.com/article") \o Str(i),
             summary |-> Chars("Critical vulnerability malware attack security breach"),
             tags |-> IF i % 2 = 0 THEN <<"malware", "vulnerability">> ELSE <<"phishing">>,
             urgency |-> IF i < SampleBucket THEN "High"
                         ELSE IF i < 2 * SampleBucket THEN "Medium" ELSE "Low",
             date |-> DateStr(MetricsToday - i)]]

\* every list over S of length at most n
Lists(S, n) == UNION {[1..k -> S] : k \in 0..n}

-----------------------------------------------------------------------------
(* The values the variables of a specification hold while it does not use  *)
(* them.                                                                   *)

SimilarIdle ==
    /\ sim_title1 = <<>> /\ sim_title2 = <<>>
    /\ sim_threshold = DefaultThreshold /\ sim_result = "none"
    /\ normalized = <<>> /\ normalized_twice = <<>>
DedupeIdle == deduped = <<>> /\ deduped_twice = <<>> /\ deduped_again = <<>>
ClassifyIdle == classified = <<>>
SnapshotIdle ==
    /\ today = FirstDay /\ runs = 0 /\ news = <<>> /\ save_ok = "none"
    /\ saved_runs = <<>>
MetricsIdle ==
    /\ in_items = <<>> /\ in_days_7 = <<>> /\ in_days_30 = <<>>
    /\ out_metrics = "none" /\ out_metrics_again = "none"
    /\ news_exists = TRUE /\ load_days = 0 /\ stats = <<>> /\ outcome = "none"
    /\ site = <<>> /\ backup_articles = <<>>

similarVars == <<sim_title1, sim_title2, sim_threshold, sim_result, normalized,
                 normalized_twice>>
dedupeVars == <<deduped, deduped_twice, deduped_again>>
snapshotVars == <<today, runs, news, save_ok, saved_runs>>
metricsVars == <<in_items, in_days_7, in_days_30, out_metrics,
                 out_metrics_again, news_exists,
                 load_days, stats, outcome, site, backup_articles>>

-----------------------------------------------------------------------------
(* SpecSimilar: one call of are_titles_similar on any two titles of the    *)
(* pool.                                                                   *)

InitSimilar ==
    /\ pc = "call"
    /\ sim_title1 \in TitlePool
    /\ sim_title2 \in TitlePool
    /\ sim_threshold \in Thresholds
    /\ sim_result = "none"
    /\ normalized = <<>> /\ normalized_twice = <<>>
    /\ input_articles = <<>>
    /\ DedupeIdle /\ ClassifyIdle /\ SnapshotIdle /\ MetricsIdle

CallSimilar ==
    /\ pc = "call"
    /\ sim_result' = are_titles_similar(sim_title1, sim_title2, sim_threshold)
    /\ pc' = "done"
    /\ UNCHANGED <<sim_title1, sim_title2, sim_threshold, normalized,
                   normalized_twice, input_articles, dedupeVars, classified,
                   snapshotVars, metricsVars>>

NextSimilar == CallSimilar

SpecSimilar == InitSimilar /\ [][NextSimilar]_vars

-----------------------------------------------------------------------------
(* SpecNormalize: normalize_title called on a title, and again on its      *)
(* result.                                                                 *)

\* titles with punctuation between blanks and with an underscore
T_Dash == Chars("Patch - Now")
T_Under == Chars("  CVE_2025: Fix\tIt ")

NormalizePool == FixedTitles \cup {T_Dash, T_Under} \cup GenTitles(MaxNormLen)

InitNormalize ==
    /\ pc = "call"
    /\ sim_title1 \in NormalizePool
    /\ sim_title2 = <<>>
    /\ sim_threshold = DefaultThreshold /\ sim_result = "none"
    /\ normalized = <<>> /\ normalized_twice = <<>>
    /\ input_articles = <<>>
    /\ DedupeIdle /\ ClassifyIdle /\ SnapshotIdle /\ MetricsIdle

\* normalized = normalize_title(title)
CallNormalize ==
    /\ pc = "call"
    /\ normalized' = normalize_title(sim_title1)
    /\ pc' = "normalized"
    /\ UNCHANGED <<sim_title1, sim_title2, sim_threshold, sim_result,
                   normalized_twice, input_articles, dedupeVars, classified,
                   snapshotVars, metricsVars>>

\* normalized_twice = normalize_title(normalized)
CallNormalizeAgain ==
    /\ pc = "normalized"
    /\ normalized_twice' = normalize_title(normalized)
    /\ pc' = "normalized_twice"
    /\ UNCHANGED <<sim_title1, sim_title2, sim_threshold, sim_result,
                   normalized, input_articles, dedupeVars, classified,
                   snapshotVars, metricsVars>>

NextNormalize == CallNormalize \/ CallNormalizeAgain

SpecNormalize == InitNormalize /\ [][NextNormalize]_vars

-----------------------------------------------------------------------------
(* SpecDedupe: deduplicate_articles on any list of at most MaxArticles     *)
(* articles of the pool, and then once more on its own result.             *)

InitDedupe ==
    /\ pc = "call"
    /\ input_articles \in Lists(ArticlePool, MaxArticles)
    /\ SimilarIdle /\ DedupeIdle /\ ClassifyIdle /\ SnapshotIdle /\ MetricsIdle

CallDedupe ==
    /\ pc = "call"
    /\ deduped' = deduplicate_articles(input_articles)
    /\ pc' = "deduped"
    /\ UNCHANGED <<similarVars, input_articles, deduped_twice, deduped_again,
                   classified,
                   snapshotVars, metricsVars>>

CallDedupeAgain ==
    /\ pc = "deduped"
    /\ deduped_twice' = deduplicate_articles(deduped)
    /\ pc' = "deduped_twice"
    /\ UNCHANGED <<similarVars, input_articles, deduped, deduped_again,
                   classified,
                   snapshotVars, metricsVars>>

NextDedupe == CallDedupe \/ CallDedupeAgain

SpecDedupe == InitDedupe /\ [][NextDedupe]_vars

-----------------------------------------------------------------------------
(* SpecClassify: extract_tags_and_urgency on any article of                *)
(* ClassifyArticles.                                                       *)

InitClassify ==
    /\ pc = "call"
    /\ input_articles \in {<<a>> : a \in ClassifyArticles}
    /\ SimilarIdle /\ DedupeIdle /\ ClassifyIdle /\ SnapshotIdle /\ MetricsIdle

CallClassify ==
    /\ pc = "call"
    /\ classified' = [i \in 1..Len(input_articles) |->
                        extract_tags_and_urgency(input_articles[i])]
    /\ pc' = "classified"
    /\ UNCHANGED <<similarVars, input_articles, dedupeVars, snapshotVars,
                   metricsVars>>

NextClassify == CallClassify

SpecClassify == InitClassify /\ [][NextClassify]_vars

-----------------------------------------------------------------------------
(* SpecSnapshot: MaxRuns runs of save_articles_to_json, on the same day or *)
(* on the next one, each on any list of at most MaxSaved articles.         *)

InitSnapshot ==
    /\ pc = "fetched"
    /\ today = FirstDay
    /\ runs = 1
    /\ news = [d \in SnapshotDays |-> Absent]
    /\ saved_runs = [d \in SnapshotDays |-> <<>>]
    /\ save_ok = "none"
    /\ input_articles \in Lists(SnapshotPool, MaxSaved)
    /\ SimilarIdle /\ DedupeIdle /\ ClassifyIdle /\ MetricsIdle

\* save_articles_to_json(input_articles): the items are built and the file of
\* today is replaced by the dump; a KeyError while building the items, or an
\* OSError from makedirs or open, leaves the file as it is, and an OSError
\* during the dump leaves it truncated
SaveArticles ==
    /\ pc = "fetched"
    /\ \/ /\ ~ItemsRaise(input_articles)
          /\ news' = [news EXCEPT ![today] = SnapshotOf(input_articles, today)]
          /\ save_ok' = TRUE
          /\ saved_runs' = [saved_runs EXCEPT ![today] = Append(@, input_articles)]
       \/ /\ ItemsRaise(input_articles)
          /\ news' = news
          /\ save_ok' = FALSE
          /\ UNCHANGED saved_runs
       \/ /\ ~ItemsRaise(input_articles)
          /\ news' \in {news, [news EXCEPT ![today] = Malformed]}
          /\ save_ok' = FALSE
          /\ UNCHANGED saved_runs
    /\ pc' = "saved"
    /\ UNCHANGED <<similarVars, input_articles, dedupeVars, classified, today,
                   runs, metricsVars>>

\* the next scheduled run, the same day or the day after
NextRun ==
    /\ pc = "saved"
    /\ runs < MaxRuns
    /\ runs' = runs + 1
    /\ today' \in {today, today + 1} \cap SnapshotDays
    /\ input_articles' \in Lists(SnapshotPool, MaxSaved)
    /\ save_ok' = "none"
    /\ pc' = "fetched"
    /\ UNCHANGED <<similarVars, dedupeVars, classified, news, saved_runs,
                   metricsVars>>

NextSnapshot == SaveArticles \/ NextRun

SpecSnapshot == InitSnapshot /\ [][NextSnapshot]_vars

-----------------------------------------------------------------------------
(* SpecSave: one run of save_articles_to_json on any list of at most       *)
(* MaxArticles articles of the pool, the article without link included.    *)

InitSave ==
    /\ pc = "fetched"
    /\ today \in SnapshotDays
    /\ runs = MaxRuns
    /\ news = [d \in SnapshotDays |-> Absent]
    /\ saved_runs = [d \in SnapshotDays |-> <<>>]
    /\ save_ok = "none"
    /\ input_articles \in Lists(ArticlePool \cup {A_NoLink}, MaxArticles)
    /\ SimilarIdle /\ DedupeIdle /\ ClassifyIdle /\ MetricsIdle

NextSave == SaveArticles

SpecSave == InitSave /\ [][NextSave]_vars

-----------------------------------------------------------------------------
(* SpecMetrics: compute_metrics on any list of at most MaxItems items of   *)
(* the pool and on the fixture of the tests, called as the tests call it   *)
(* (days_7 a prefix of the items, days_30 all of them) and as main calls   *)
(* it (the two windows filtered by date).                                  *)

InitMetrics ==
    /\ pc = "loaded"
    /\ today = MetricsToday
    /\ runs = 0 /\ news = <<>> /\ save_ok = "none" /\ saved_runs = <<>>
    /\ in_items \in Lists(ItemPool, MaxItems) \cup {SampleItems}
    /\ in_days_7 = <<>>
    /\ in_days_30 = <<>>
    /\ out_metrics = "none" /\ out_metrics_again = "none"
    /\ news_exists = TRUE /\ load_days = 0 /\ stats = <<>> /\ outcome = "none"
    /\ site = <<>> /\ backup_articles = <<>>
    /\ input_articles = <<>>
    /\ SimilarIdle /\ DedupeIdle /\ ClassifyIdle

\* metrics = compute_metrics(items, items[:k], items)
TestCompute ==
    /\ pc = "loaded"
    /\ \E k \in 0..Len(in_items) :
          /\ in_days_7' = SubSeq(in_items, 1, k)
          /\ in_days_30' = in_items
          /\ out_metrics' = compute_metrics(in_items, SubSeq(in_items, 1, k), in_items)
    /\ pc' = "computed"
    /\ UNCHANGED <<similarVars, input_articles, dedupeVars, classified,
                   snapshotVars, in_items, out_metrics_again, news_exists,
                   load_days, stats, outcome, site, backup_articles>>

\* main, from the loaded items to the metrics: the empty metrics when nothing
\* was loaded, else compute_metrics on the items and the two windows
MainMetrics ==
    /\ pc = "loaded"
    /\ \/ /\ in_items = <<>>
          /\ in_days_7' = <<>>
          /\ in_days_30' = <<>>
          /\ out_metrics' = empty_metrics
          /\ pc' = "empty_metrics"
       \/ /\ in_items # <<>>
          /\ in_days_7' = ItemsSince(in_items, Window7)
          /\ in_days_30' = ItemsSince(in_items, Window30)
          /\ out_metrics' = compute_metrics(in_items, ItemsSince(in_items, Window7),
                                            ItemsSince(in_items, Window30))
          /\ pc' = "computed"
    /\ UNCHANGED <<similarVars, input_articles, dedupeVars, classified,
                   snapshotVars, in_items, out_metrics_again, news_exists,
                   load_days, stats, outcome, site, backup_articles>>

NextMetrics == TestCompute \/ MainMetrics

SpecMetrics == InitMetrics /\ [][NextMetrics]_vars

-----------------------------------------------------------------------------
(* SpecLoad: one call of load_news_files on a news/ directory that holds,  *)
(* for each date from MaxLoadDays days ago to tomorrow, nothing or the     *)
(* file of the test fixture, with at most one date holding another file.   *)

\* the number in the title of the items of a date: the i of the fixture up
\* to today, a multiple of ten after it
FileTag(d) == IF d <= MetricsToday THEN MetricsToday - d ELSE 10 * (d - MetricsToday)

\* the file of the fixture sample_news_dir for a date: one item without date
FixtureFile(d) ==
    [kind |-> "snapshot",
     date |-> DateStr(d),
     items |-> <<[title |-> Chars("Test Article ") \o Str(FileTag(d)),
                  link |-> Chars("https://example.com/article"),
                  summary |-> Chars("Test summary"),
                  tags |-> <<"test", "malware">>,
                  urgency |-> IF MetricsToday - d \in 0..1 THEN "High" ELSE "Medium"]>>]

\* a file that is a list of two items, the second with a date of its own
ListFile(d) ==
    BareList(<<[title |-> Chars("Test Article ") \o Str(FileTag(d)),
                link |-> Chars("https://example.com/a")],
               [title |-> Chars("Test Article ") \o Str(FileTag(d)),
                date |-> DateStr(FirstDay)]>>)

\* the other contents one date can hold
OtherFiles(d) ==
    {ListFile(d), Malformed, OtherJson, ItemsNotIterable,
     BareList(<<FixtureFile(d).items[1], NotADict(FALSE)>>),
     BareList(<<FixtureFile(d).items[1], NotADict(TRUE)>>),
     ItemsDict(<<NotADict(TRUE), NotADict(TRUE)>>),
     ItemsDict(<<NotADict(TRUE), NotADict(FALSE), NotADict(TRUE)>>)}

LoadDates == (MetricsToday - MaxLoadDays)..(MetricsToday + 1)

NewsDirs ==
    LET plain == [LoadDates -> BOOLEAN]
        Dir(present) == [d \in LoadDates |->
                            IF present[d] THEN FixtureFile(d) ELSE Absent]
    IN  {Dir(present) : present \in plain}
        \cup UNION {{[Dir(present) EXCEPT ![d] = other] :
                        present \in {q \in plain : q[d]},
                        other \in OtherFiles(d)} : d \in LoadDates}

InitLoad ==
    /\ pc = "start"
    /\ today = MetricsToday
    /\ runs = 0 /\ save_ok = "none" /\ saved_runs = <<>>
    /\ news_exists \in BOOLEAN
    /\ news \in IF news_exists THEN NewsDirs ELSE {[d \in LoadDates |-> Absent]}
    /\ load_days \in -1..MaxLoadDays
    /\ in_items = <<>> /\ in_days_7 = <<>> /\ in_days_30 = <<>>
    /\ out_metrics = "none" /\ out_metrics_again = "none"
    /\ stats = <<>> /\ outcome = "none"
    /\ site = <<>> /\ backup_articles = <<>>
    /\ input_articles = <<>>
    /\ SimilarIdle /\ DedupeIdle /\ ClassifyIdle

\* all_items = load_news_files(news_dir, days)
Load ==
    /\ pc = "start"
    /\ in_items' = load_news_files(news_exists, news, load_days)
    /\ pc' = "loaded"
    /\ UNCHANGED <<similarVars, input_articles, dedupeVars, classified,
                   snapshotVars, in_days_7, in_days_30, out_metrics,
                   out_metrics_again,
                   news_exists, load_days, stats, outcome, site,
                   backup_articles>>

NextLoad == Load

SpecLoad == InitLoad /\ [][NextLoad]_vars

-----------------------------------------------------------------------------
(* SpecTrends: main of generate_trends from the loaded items on: the       *)
(* metrics are computed and save_metrics writes them, or fails at any of   *)
(* its steps, into a stats/ directory that is empty or holds the files of  *)
(* the day before.                                                         *)

TrendsPool == {I_Malware, I_Phishing, I_NullUrgency, I_Empty}

StatsDays == {MetricsToday - 1, MetricsToday}

EmptyStats == [latest |-> Absent, archive |-> [d \in StatsDays |-> Absent]]

\* trends.json and the archive of yesterday, as yesterday's run left them
PriorStats ==
    LET prior == json_dump(compute_metrics(<<I_Old>>, <<>>, <<I_Old>>))
    IN  [latest |-> prior,
         archive |-> [d \in StatsDays |-> IF d < MetricsToday THEN prior ELSE Absent]]

InitTrends ==
    /\ pc = "loaded"
    /\ today = MetricsToday
    /\ runs = 0 /\ news = <<>> /\ save_ok = "none" /\ saved_runs = <<>>
    /\ in_items \in Lists(TrendsPool, MaxTrendItems)
    /\ in_days_7 = <<>> /\ in_days_30 = <<>>
    /\ out_metrics = "none" /\ out_metrics_again = "none"
    /\ news_exists = TRUE /\ load_days = 0
    /\ stats \in {EmptyStats, PriorStats}
    /\ outcome = "none"
    /\ site = <<>> /\ backup_articles = <<>>
    /\ input_articles = <<>>
    /\ SimilarIdle /\ DedupeIdle /\ ClassifyIdle

\* save_metrics(metrics, stats_dir) at the end of main: both files are
\* written and main returns; or mkdir or the open of trends.json raises and
\* nothing is written; or the dump into trends.json raises and leaves it
\* truncated; or trends.json is written and the open of the archive raises,
\* or the dump into it, which leaves it truncated. save_metrics and main
\* catch nothing, so the exception leaves main
SaveMetrics ==
    /\ pc \in {"computed", "empty_metrics"}
    /\ \/ /\ stats' = StatsWritten(stats, out_metrics)
          /\ outcome' = "returned"
          /\ pc' = "saved"
       \/ /\ stats' = stats
          /\ outcome' = "raised"
          /\ pc' = "save_failed"
       \/ /\ stats' = [stats EXCEPT !.latest = Malformed]
          /\ outcome' = "raised"
          /\ pc' = "save_failed"
       \/ /\ stats' \in {[stats EXCEPT !.latest = json_dump(out_metrics)],
                         [stats EXCEPT !.latest = json_dump(out_metrics),
                                       !.archive[today] = Malformed]}
          /\ outcome' = "raised"
          /\ pc' = "save_failed"
    /\ UNCHANGED <<similarVars, input_articles, dedupeVars, classified,
                   snapshotVars, in_items, in_days_7, in_days_30, out_metrics,
                   out_metrics_again,
                   news_exists, load_days, site, backup_articles>>

NextTrends == MainMetrics \/ SaveMetrics

SpecTrends == InitTrends /\ [][NextTrends]_vars

-----------------------------------------------------------------------------
(* SpecArchive: MaxTrendRuns runs of main of generate_trends, on the same  *)
(* day or on the next one, each on one of a few lists of loaded items,     *)
(* each ending in save_metrics or in its failure.                          *)

\* what the runs load
TrendRunItems == {<<>>, <<I_Malware>>, <<I_Phishing, I_NullUrgency>>}

InitArchive ==
    /\ pc = "loaded"
    /\ today = MetricsToday - 1
    /\ runs = 1 /\ news = <<>> /\ save_ok = "none" /\ saved_runs = <<>>
    /\ in_items \in TrendRunItems
    /\ in_days_7 = <<>> /\ in_days_30 = <<>>
    /\ out_metrics = "none" /\ out_metrics_again = "none"
    /\ news_exists = TRUE /\ load_days = 0
    /\ stats \in {EmptyStats, PriorStats}
    /\ outcome = "none"
    /\ site = <<>> /\ backup_articles = <<>>
    /\ input_articles = <<>>
    /\ SimilarIdle /\ DedupeIdle /\ ClassifyIdle

\* the next scheduled run of the generator, the same day or the day after,
\* whether the run before returned or raised
NextTrendRun ==
    /\ pc \in {"saved", "save_failed"}
    /\ runs < MaxTrendRuns
    /\ runs' = runs + 1
    /\ today' \in {today, today + 1} \cap StatsDays
    /\ in_items' \in TrendRunItems
    /\ in_days_7' = <<>> /\ in_days_30' = <<>>
    /\ out_metrics' = "none"
    /\ outcome' = "none"
    /\ pc' = "loaded"
    /\ UNCHANGED <<similarVars, input_articles, dedupeVars, classified, news,
                   save_ok, saved_runs, out_metrics_again, news_exists,
                   load_days, stats, site, backup_articles>>

NextArchive == MainMetrics \/ SaveMetrics \/ NextTrendRun

SpecArchive == InitArchive /\ [][NextArchive]_vars

-----------------------------------------------------------------------------
(* SpecUpdate: one run of update_html (and so of main of the updater) on   *)
(* the articles the three sources and the backup source return.            *)

\* fewer unique articles than this make update_html ask the backup source
MinArticles == 5

\* update_articles that puts the backup source's articles first
update_articles_backup_first(fetched, backup) ==
    LET unique == deduplicate_articles(fetched)
    IN  IF Len(unique) < MinArticles
        THEN deduplicate_articles(backup \o unique)
        ELSE unique

\* the articles update_html publishes: the fetched ones deduplicated, and if
\* they are too few, deduplicated again together with the backup source's
update_articles(fetched, backup) ==
    LET unique == deduplicate_articles(fetched)
    IN  IF Len(unique) < MinArticles
        THEN deduplicate_articles(unique \o backup)
        ELSE unique

\* tenguardwatch.html: re.sub puts the articles into the ticker and the
\* news section when the page has these sections, and leaves it alone else
Page(sections, articles) ==
    [kind |-> "html", sections |-> sections, articles |-> articles]
PageAfter(page, articles) ==
    IF page.sections THEN Page(TRUE, articles) ELSE page

\* update_info.json with the number of articles the sources returned
UpdateInfoCountingFetched(articles, backed_up) ==
    [kind |-> "json",
     last_update |-> DateStr(today),
     articles_count |-> Len(input_articles) + Len(backup_articles),
     backup_file |-> backed_up]

\* update_info.json
UpdateInfo(articles, backed_up) ==
    [kind |-> "json",
     last_update |-> DateStr(today),
     articles_count |-> Len(articles),
     backup_file |-> backed_up]

\* what save_articles_to_json can leave behind: the new news/ directory and
\* its return value
SaveOutcomes(articles) ==
    {<<[news EXCEPT ![today] = SnapshotOf(articles, today)], TRUE>>,
     <<news, FALSE>>,
     <<[news EXCEPT ![today] = Malformed], FALSE>>}

UpdatePool == {A_Critical, A_Cisco, A_CiscoPunct, A_Stopwords}
BackupPool == {A_Actively, A_CiscoToday}

Sites ==
    {[html |-> page, backup |-> Absent, update_info |-> Absent] :
        page \in {Absent, Page(TRUE, <<>>), Page(FALSE, <<>>)}}

InitUpdate ==
    /\ pc = "update"
    /\ today = FirstDay
    /\ runs = 1
    /\ news = [d \in SnapshotDays |-> Absent]
    /\ saved_runs = [d \in SnapshotDays |-> <<>>]
    /\ save_ok = "none"
    /\ input_articles \in Lists(UpdatePool, MaxFetched)
    /\ backup_articles \in Lists(BackupPool, MaxBackup)
    /\ site \in Sites
    /\ in_items = <<>> /\ in_days_7 = <<>> /\ in_days_30 = <<>>
    /\ out_metrics = "none" /\ out_metrics_again = "none"
    /\ news_exists = TRUE /\ load_days = 0 /\ stats = <<>> /\ outcome = "none"
    /\ SimilarIdle /\ DedupeIdle /\ ClassifyIdle

\* update_html(): False when the page is missing. Else the backup is made
\* (create_backup returns None when it cannot), and the run returns False
\* with nothing else written when reading the page raises or no article is
\* left; or the write of the page raises and leaves it truncated; or the
\* page is written and save_articles_to_json runs, whose return value is
\* not looked at, and then update_info.json is written and the run returns
\* True, or that write raises and the run returns False
UpdateHtml ==
    /\ pc = "update"
    /\ LET articles == update_articles(input_articles, backup_articles)
       IN  \/ /\ site.html = Absent
              /\ outcome' = "False"
              /\ pc' = "aborted"
              /\ UNCHANGED <<site, news, save_ok, saved_runs>>
           \/ /\ site.html # Absent
              /\ \E backed_up \in BOOLEAN :
                   LET base == IF backed_up
                               THEN [site EXCEPT !.backup = site.html]
                               ELSE site
                       written == [base EXCEPT
                                     !.html = PageAfter(site.html, articles)]
                   IN  \/ /\ site' = base
                          /\ outcome' = "False"
                          /\ pc' = "aborted"
                          /\ UNCHANGED <<news, save_ok, saved_runs>>
                       \/ /\ articles # <<>>
                          /\ site' = [base EXCEPT !.html = Malformed]
                          /\ outcome' = "False"
                          /\ pc' = "aborted"
                          /\ UNCHANGED <<news, save_ok, saved_runs>>
                       \/ /\ articles # <<>>
                          /\ \E saved \in SaveOutcomes(articles) :
                                /\ news' = saved[1] /\ save_ok' = saved[2]
                                /\ saved_runs' =
                                      IF saved[2]
                                      THEN [saved_runs EXCEPT
                                              ![today] = Append(@, articles)]
                                      ELSE saved_runs
                          /\ \/ /\ site' = [written EXCEPT !.update_info =
                                                UpdateInfo(articles, backed_up)]
                                /\ outcome' = "True"
                             \/ /\ site' \in {written,
                                     [written EXCEPT !.update_info = Malformed]}
                                /\ outcome' = "False"
                          /\ pc' = "updated"
    /\ UNCHANGED <<similarVars, input_articles, dedupeVars, classified, today,
                   runs, in_items, in_days_7, in_days_30, out_metrics,
                   out_metrics_again,
                   news_exists, load_days, stats, backup_articles>>

NextUpdate == UpdateHtml

SpecUpdate == InitUpdate /\ [][NextUpdate]_vars

-----------------------------------------------------------------------------
(* SpecSymmetry: are_titles_similar on any two titles of the pool, and     *)
(* deduplicate_articles on the list of two articles that carry them and a  *)
(* third article after them.                                               *)

InitSymmetry ==
    /\ pc = "call"
    /\ sim_title1 \in TitlePool
    /\ sim_title2 \in TitlePool
    /\ sim_threshold \in Thresholds
    /\ sim_result = "none"
    /\ normalized = <<>> /\ normalized_twice = <<>>
    /\ input_articles = <<[title |-> sim_title1], [title |-> sim_title2],
                          [title |-> T_CiscoToday]>>
    /\ DedupeIdle /\ ClassifyIdle /\ SnapshotIdle /\ MetricsIdle

NextSymmetry == CallSimilar \/ CallDedupe

SpecSymmetry == InitSymmetry /\ [][NextSymmetry]_vars

-----------------------------------------------------------------------------
(* SpecRepeat: deduplicate_articles called twice on the same list, and     *)
(* compute_metrics called twice on the same three lists, the clock         *)
(* possibly passing midnight between the two calls.                        *)

InitRepeat ==
    /\ \/ /\ pc = "call"
          /\ input_articles \in Lists(UpdatePool \cup BackupPool, MaxFetched)
          /\ in_items = <<>>
       \/ /\ pc = "loaded"
          /\ input_articles = <<>>
          /\ in_items \in Lists(TrendsPool, MaxTrendItems)
    /\ today = MetricsToday
    /\ runs = 0 /\ news = <<>> /\ save_ok = "none" /\ saved_runs = <<>>
    /\ in_days_7 = <<>> /\ in_days_30 = <<>>
    /\ out_metrics = "none" /\ out_metrics_again = "none"
    /\ news_exists = TRUE /\ load_days = 0 /\ stats = <<>> /\ outcome = "none"
    /\ site = <<>> /\ backup_articles = <<>>
    /\ SimilarIdle /\ DedupeIdle /\ ClassifyIdle

\* midnight passes after the first call
ClockTick ==
    /\ pc \in {"deduped", "computed"}
    /\ today = MetricsToday
    /\ today' = today + 1
    /\ UNCHANGED <<pc, similarVars, input_articles, dedupeVars, classified,
                   runs, news, save_ok, saved_runs, metricsVars>>

\* deduplicate_articles(input_articles), a second time
CallDedupeSame ==
    /\ pc = "deduped"
    /\ deduped_again' = deduplicate_articles(input_articles)
    /\ pc' = "deduped_again"
    /\ UNCHANGED <<similarVars, input_articles, deduped, deduped_twice,
                   classified, snapshotVars, metricsVars>>

\* compute_metrics(items, days_7, days_30), a second time on the same lists
ComputeAgain ==
    /\ pc = "computed"
    /\ out_metrics_again' = compute_metrics(in_items, in_days_7, in_days_30)
    /\ pc' = "computed_again"
    /\ UNCHANGED <<similarVars, input_articles, dedupeVars, classified,
                   snapshotVars, in_items, in_days_7, in_days_30, out_metrics,
                   news_exists, load_days, stats, outcome, site,
                   backup_articles>>

NextRepeat ==
    CallDedupe \/ CallDedupeSame \/ TestCompute \/ ClockTick \/ ComputeAgain

SpecRepeat == InitRepeat /\ [][NextRepeat]_vars

-----------------------------------------------------------------------------
(* SpecRerun: one run of update_html on a day on which an earlier run has  *)
(* left a snapshot, with the update_info.json of the day before.           *)

\* what the earlier run published
PriorArticles == <<A_Stopwords>>

\* update_info.json as the run of the day before left it
PriorInfo ==
    [UpdateInfo(PriorArticles, FALSE) EXCEPT !.last_update = DateStr(FirstDay - 1)]

InitRerun ==
    /\ pc = "update"
    /\ today = FirstDay
    /\ runs = MaxRuns
    /\ news = [d \in SnapshotDays |->
                 IF d = FirstDay THEN SnapshotOf(PriorArticles, d) ELSE Absent]
    /\ saved_runs = [d \in SnapshotDays |->
                       IF d = FirstDay THEN <<PriorArticles>> ELSE <<>>]
    /\ save_ok = "none"
    /\ input_articles \in Lists(UpdatePool \ {A_Stopwords}, MaxFetched)
    /\ backup_articles \in Lists(BackupPool, MaxBackup)
    /\ site \in {[html |-> page, backup |-> Absent, update_info |-> PriorInfo] :
                    page \in {Absent, Page(TRUE, PriorArticles),
                              Page(FALSE, PriorArticles)}}
    /\ in_items = <<>> /\ in_days_7 = <<>> /\ in_days_30 = <<>>
    /\ out_metrics = "none" /\ out_metrics_again = "none"
    /\ news_exists = TRUE /\ load_days = 0 /\ stats = <<>> /\ outcome = "none"
    /\ SimilarIdle /\ DedupeIdle /\ ClassifyIdle

NextRerun == UpdateHtml

SpecRerun == InitRerun /\ [][NextRerun]_vars

-----------------------------------------------------------------------------
(* SpecRuns: the two top-level invocations, the updater's and the trends   *)
(* generator's, each from its own start.                                   *)

InitRuns == InitUpdate \/ InitTrends

NextRuns == NextUpdate \/ NextTrends

SpecRuns == InitRuns /\ [][NextRuns]_vars

-----------------------------------------------------------------------------
(* Claims about are_titles_similar and deduplicate_articles.               *)

\* article.get("title", "")
TitleOf(article) == Get(article, "title", <<>>)

\* the elements of s at the indices in K, in the order of s
Pick(s, K) ==
    LET F[i \in 0..Len(s)] ==
            IF i = 0 THEN <<>>
            ELSE IF i \in K THEN Append(F[i - 1], s[i]) ELSE F[i - 1]
    IN  F[Len(s)]

\* C1, as stated: for every title T, the empty title and the titles made only
\* of punctuation included, are_titles_similar(T, T) returns true.
C1_ReflexiveOnEveryTitle ==
    (pc = "done" /\ sim_title1 = sim_title2) => sim_result = TRUE

\* C1, amended: for every non-empty title T, titles made only of punctuation
\* included, are_titles_similar(T, T) returns true, whatever the threshold;
\* for the empty title it returns false.
C1_ReflexiveOnNonEmptyTitles ==
    (pc = "done" /\ sim_title1 = sim_title2) => (sim_result <=> sim_title1 # <<>>)

\* a title made only of punctuation has been compared with itself
C1_Witness ==
    /\ pc = "done"
    /\ sim_title1 = T_Punct /\ sim_title2 = T_Punct
    /\ sim_result = TRUE

\* C2, as stated: with the default threshold the two Windows titles are
\* similar, so deduplicate_articles on the two articles in that order returns
\* only the first one.
C2_WindowsTitlesAreDuplicates ==
    (pc = "deduped" /\ input_articles = <<A_Critical, A_Actively>>)
        => /\ are_titles_similar(T_Critical, T_Actively, DefaultThreshold)
           /\ deduped = <<A_Critical>>

\* C2, amended: with the default threshold the two Windows titles are not
\* similar (3 of 6 significant words and 3 of 7 words are shared, both below
\* 0.7), so deduplicate_articles on the two articles returns both, in order.
C2_WindowsTitlesAreBothKept ==
    (pc = "deduped" /\ input_articles = <<A_Critical, A_Actively>>)
        => /\ ~are_titles_similar(T_Critical, T_Actively, DefaultThreshold)
           /\ deduped = <<A_Critical, A_Actively>>

\* deduplicate_articles has returned for the two Windows articles
C2_Witness ==
    /\ pc = "deduped"
    /\ input_articles = <<A_Critical, A_Actively>>
    /\ Len(deduped) = 2

\* C3: deduplicate_articles is idempotent: applied to its own result it
\* returns that result unchanged.
C3_DedupeIdempotent ==
    pc = "deduped_twice" => deduped_twice = deduped

\* the second call has returned, after a first call that dropped an article
\* and kept two
C3_Witness ==
    /\ pc = "deduped_twice"
    /\ Len(input_articles) = 3
    /\ Len(deduped) = 2
    /\ Len(deduped_twice) = 2

\* C4: the result of deduplicate_articles is a subsequence of its input (the
\* survivors are input articles in their input order), a non-empty input
\* keeps its first article, and an empty input gives an empty result.
C4_DedupeSubsequence ==
    pc = "deduped" =>
        /\ \E K \in SUBSET (1..Len(input_articles)) :
              /\ deduped = Pick(input_articles, K)
              /\ input_articles # <<>> => 1 \in K
        /\ input_articles = <<>> => deduped = <<>>

\* the middle one of three articles has been dropped
C4_Witness ==
    /\ pc = "deduped"
    /\ Len(input_articles) = 3
    /\ input_articles[1] # input_articles[3]
    /\ deduped = <<input_articles[1], input_articles[3]>>

\* C5: an article is dropped if and only if its title is similar (default
\* threshold) to the title of an article accepted earlier in the same call:
\* the accepted indices K are those with no similar accepted predecessor.
C5_DroppedIffSimilarToAccepted ==
    pc = "deduped" =>
        \E K \in SUBSET (1..Len(input_articles)) :
            /\ deduped = Pick(input_articles, K)
            /\ \A i \in 1..Len(input_articles) :
                  i \notin K <=>
                     \E j \in K :
                        /\ j < i
                        /\ are_titles_similar(TitleOf(input_articles[i]),
                                              TitleOf(input_articles[j]),
                                              DefaultThreshold)

\* two similar articles that differ in every other field: the first one wins
\* although the second one has the summary; and an article similar to a
\* dropped one but to no accepted one is kept
C5_Witness ==
    /\ pc = "deduped"
    /\ \/ input_articles = <<A_Cisco, A_CiscoPunct>> /\ deduped = <<A_Cisco>>
       \/ /\ input_articles = <<A_Cisco, A_CiscoToday, A_CiscoUrgent>>
          /\ deduped = <<A_Cisco, A_CiscoUrgent>>

-----------------------------------------------------------------------------
(* Claims about the classifier and the daily snapshot.                     *)

UrgencyLevels == {"High", "Medium", "Low"}
TagNames == {tag_keywords[i][1] : i \in 1..Len(tag_keywords)}

\* no keyword of any tag occurs in the text of the article
NoTagKeyword(article) ==
    \A i \in 1..Len(tag_keywords) :
        \A k \in 1..Len(tag_keywords[i][2]) :
            ~Contains(ClassifyText(article), Chars(tag_keywords[i][2][k]))

\* C6, as stated: for every article with a title, summary empty or not,
\* extract_tags_and_urgency returns a non-empty tag collection and one urgency
\* of High, Medium, Low; with no tag keyword matching, the tags returned are
\* {"cybersecurity"}.
C6_ClassifierTagsNeverEmpty ==
    pc = "classified" =>
        \A i \in 1..Len(input_articles) :
            /\ classified[i].tags # <<>>
            /\ classified[i].urgency \in UrgencyLevels
            /\ NoTagKeyword(input_articles[i])
                  => classified[i].tags = <<"cybersecurity">>

\* C6, amended: for every article with a title, summary empty or not,
\* extract_tags_and_urgency returns one urgency of High, Medium, Low and a
\* list of distinct tags of tag_keywords that is empty exactly when no tag
\* keyword matches (the default "cybersecurity" is not returned by it).
C6_ClassifierTagsEmptyIffNoKeyword ==
    pc = "classified" =>
        \A i \in 1..Len(input_articles) :
            LET tags == classified[i].tags
            IN  /\ classified[i].urgency \in UrgencyLevels
                /\ tags = <<>> <=> NoTagKeyword(input_articles[i])
                /\ Range(tags) \subseteq TagNames
                /\ Cardinality(Range(tags)) = Len(tags)

\* an article with an empty summary and no keyword has been classified
C6_Witness ==
    /\ pc = "classified"
    /\ input_articles[1].title = T_Stopwords
    /\ "summary" \in DOMAIN input_articles[1]
    /\ input_articles[1].summary = <<>>
    /\ classified[1] = [tags |-> <<>>, urgency |-> "Low"]

\* the items of the snapshot files of news/
SnapshotItems ==
    UNION { Range(news[d].items) : d \in {e \in DOMAIN news : news[e].kind = "snapshot"} }

\* C7: every item written into a daily snapshot by save_articles_to_json has
\* a non-empty tags list and an urgency that is one of High, Medium, Low.
C7_SnapshotItemsClassified ==
    \A item \in SnapshotItems :
        /\ item.tags # <<>>
        /\ item.urgency \in UrgencyLevels

\* a run has written three items, one of them with the default tag because
\* no tag keyword matches it, and one with several tags
C7_Witness ==
    /\ pc = "saved"
    /\ save_ok = TRUE
    /\ Len(news[today].items) = 3
    /\ \E item \in SnapshotItems :
          item.tags = <<"cybersecurity">> /\ item.urgency = "Low"
    /\ \E item \in SnapshotItems :
          item.tags = <<"vulnerability", "critical">> /\ item.urgency = "High"

-----------------------------------------------------------------------------
(* Claims about compute_metrics.                                           *)

WindowNames == {"7_days", "30_days"}

\* the list compute_metrics counted for the window
WindowItems(w) == IF w = "7_days" THEN in_days_7 ELSE in_days_30

\* the urgency an item is counted under
UrgencyOf(item) == Get(item, "urgency", "Medium")

RECURSIVE SumCounts(_)
SumCounts(counter) ==
    IF counter = <<>> THEN 0 ELSE Head(counter)[2] + SumCounts(Tail(counter))

\* C8: compute_metrics([], [], []) does not raise and returns the zero-valued
\* structure: both totals 0, top_tag "N/A", and empty tag_counts,
\* urgency_counts, top_sources, top_keywords, daily_counts and top_articles.
C8_EmptyInputGivesZeroMetrics ==
    (pc = "computed" /\ in_items = <<>> /\ in_days_7 = <<>> /\ in_days_30 = <<>>)
        => /\ out_metrics.kpis.total_7_days = 0
           /\ out_metrics.kpis.total_30_days = 0
           /\ out_metrics.kpis.top_tag = "N/A"
           /\ \A w \in WindowNames :
                 /\ out_metrics.tag_counts[w] = <<>>
                 /\ out_metrics.urgency_counts[w] = <<>>
           /\ out_metrics.top_sources = <<>>
           /\ out_metrics.top_keywords = <<>>
           /\ out_metrics.daily_counts = <<>>
           /\ out_metrics.top_articles = <<>>

\* compute_metrics has returned for three empty lists
C8_Witness ==
    /\ pc = "computed"
    /\ in_items = <<>> /\ in_days_7 = <<>> /\ in_days_30 = <<>>
    /\ out_metrics.kpis.total_30_days = 0

\* C9, as stated: in the metrics of compute_metrics, and in the empty metrics
\* of main, urgency_counts.7_days and urgency_counts.30_days each contain the
\* three keys High, Medium and Low, with 0 for a level no item has.
C9_AllUrgencyLevelsPresent ==
    pc \in {"computed", "empty_metrics"} =>
        \A w \in WindowNames :
            UrgencyLevels \subseteq Keys(out_metrics.urgency_counts[w])

\* C9, amended: urgency_counts.7_days and urgency_counts.30_days contain
\* exactly the urgency values that occur in the window (Medium for an item
\* without one), each once and with a count of at least 1; a level that no
\* item has is absent, and both are empty in the empty metrics of main.
C9_OnlyOccurringUrgencyLevels ==
    pc \in {"computed", "empty_metrics"} =>
        \A w \in WindowNames :
            LET counts == out_metrics.urgency_counts[w]
            IN  /\ Keys(counts) = {UrgencyOf(item) : item \in Range(WindowItems(w))}
                /\ Cardinality(Keys(counts)) = Len(counts)
                /\ \A i \in 1..Len(counts) : counts[i][2] >= 1

\* a 30-day window with High and Medium items and no Low one has been counted
C9_Witness ==
    /\ pc = "computed"
    /\ Keys(out_metrics.urgency_counts["30_days"]) = {"High", "Medium"}
    /\ CountOf(out_metrics.urgency_counts["30_days"], "Low") = 0
    /\ Len(in_days_30) = 3

\* C10: the values of urgency_counts.30_days sum to the number of items of
\* the 30-day list, each level counting the items that have it and Medium
\* also those without an urgency, and likewise for the 7-day list; the
\* fixture of 10 High, 10 Medium and 10 Low items gives 10, 10 and 10.
C10_UrgencyCountsSumToWindowSize ==
    pc = "computed" =>
        /\ \A w \in WindowNames :
              LET counts == out_metrics.urgency_counts[w]
                  window == WindowItems(w)
              IN  /\ SumCounts(counts) = Len(window)
                  /\ \A u \in UrgencyLevels \cup Keys(counts) :
                        CountOf(counts, u) =
                            Cardinality({i \in 1..Len(window) : UrgencyOf(window[i]) = u})
        /\ in_days_30 = SampleItems =>
              /\ out_metrics.urgency_counts["30_days"] =
                    << <<"High", SampleBucket>>, <<"Medium", SampleBucket>>,
                       <<"Low", SampleBucket>> >>
              /\ out_metrics.kpis.total_30_days = SampleLen

\* a window with a Medium item and an item without urgency has been counted
C10_Witness ==
    /\ pc = "computed"
    /\ in_days_30 = <<I_Phishing, I_TitleOnly, I_Malware>>
    /\ out_metrics.urgency_counts["30_days"] = << <<"Medium", 2>>, <<"High", 1>> >>

\* the entry of top_articles that an item gives
SummaryOf(item) ==
    [title |-> Get(item, "title", Chars("Untitled")),
     link |-> Get(item, "link", Chars("#")),
     summary |-> Prefix(Get(item, "summary", <<>>), TopSummaryLen),
     urgency |-> Get(item, "urgency", "Medium"),
     date |-> Get(item, "date", <<>>),
     tags |-> Get(item, "tags", <<>>)]

\* the urgency priority of an entry: High 3, Low 1, anything else 2
RankOf(entry) ==
    IF entry.urgency = "High" THEN 3
    ELSE IF entry.urgency = "Low" THEN 1
    ELSE 2

\* entry a ranks strictly higher than entry b: higher priority, or the same
\* priority and a later date
Outranks(a, b) ==
    \/ RankOf(a) > RankOf(b)
    \/ RankOf(a) = RankOf(b) /\ StrLess(b.date, a.date)

\* C11: top_articles has at most ten entries, each taken from the all-items
\* list (no entry more often than the list holds it), no later entry ranks
\* strictly higher than an earlier one by (urgency priority, date), and no
\* item that was left out ranks strictly higher than an entry.
C11_TopArticlesRanked ==
    pc = "computed" =>
        LET top == out_metrics.top_articles
            all == List([k \in 1..Len(in_items) |-> SummaryOf(in_items[k])])
        IN  /\ Len(top) = Min(Len(in_items), TopArticlesLen)
            /\ \A i \in 1..Len(top) :
                    Cardinality({j \in 1..Len(top) : top[j] = top[i]})
                        <= Cardinality({k \in 1..Len(all) : all[k] = top[i]})
            /\ \A i \in 1..Len(top) : \A j \in (i + 1)..Len(top) :
                    ~Outranks(top[j], top[i])
            /\ \A i \in 1..Len(top) :
                    Cardinality({k \in 1..Len(all) : Outranks(all[k], top[i])})
                        = Cardinality({j \in 1..Len(top) :
                                         Outranks(top[j], top[i])})

\* the thirty-item fixture: ten entries are kept, twenty items are left out
C11_Witness ==
    /\ pc = "computed"
    /\ Len(in_items) > TopArticlesLen
    /\ Len(out_metrics.top_articles) = TopArticlesLen
    /\ out_metrics.top_articles[1].urgency = "High"
    /\ \E k \in 1..Len(in_items) : Get(in_items[k], "urgency", "Medium") = "Low"

\* a file all of whose items load: a snapshot dict or a list, of dicts only
WellFormed(data) ==
    /\ data.kind \in {"snapshot", "list"}
    /\ \A i \in 1..Len(data.items) : IsDict(data.items[i])

\* a file that is not valid JSON, or whose items cannot be iterated
NotLoadable(data) == data.kind \in {"malformed", "items_not_iterable"}

\* the date lies from load_days days ago to today, both included
InWindow(d) == today - load_days <= d /\ d <= today

\* the loaded items that carry the title of the file of date d
ItemsFrom(d) ==
    LET FromD(item) ==
            /\ IsDict(item)
            /\ Get(item, "title", <<>>) = Chars("Test Article ") \o Str(FileTag(d))
    IN  SelectSeq(in_items, FromD)

\* the items of the file of date d, each with its own date or else the file's
FileItems(d) == IF "items" \in DOMAIN news[d] THEN news[d].items ELSE <<>>
DatedItems(d) ==
    List([i \in 1..Len(FileItems(d)) |-> WithDate(FileItems(d)[i], DateStr(d))])

\* C12: load_news_files returns a list whatever the files hold, and when a
\* file of the window is not valid JSON or its items cannot be iterated,
\* every loaded item comes from a well-formed file of another date of the
\* window and each of those files is loaded in full.
C12_MalformedFileSkipped ==
    /\ pc \in {"start", "loaded"}
    /\ pc = "loaded" =>
          \A d \in LoadDates :
              InWindow(d) /\ NotLoadable(news[d]) =>
                  /\ \A k \in 1..Len(in_items) :
                        \E e \in LoadDates \ {d} :
                            /\ InWindow(e) /\ WellFormed(news[e])
                            /\ \E i \in 1..Len(FileItems(e)) :
                                  in_items[k] = DatedItems(e)[i]
                  /\ \A e \in LoadDates \ {d} :
                        InWindow(e) /\ WellFormed(news[e]) =>
                            ItemsFrom(e) = DatedItems(e)

\* a file that cannot be parsed lies in the window between two loaded files
C12_Witness ==
    /\ pc = "loaded"
    /\ \E d \in LoadDates :
          /\ InWindow(d - 1) /\ InWindow(d + 1)
          /\ NotLoadable(news[d])
          /\ ItemsFrom(d - 1) # <<>> /\ ItemsFrom(d + 1) # <<>>

FixtureFiles == 5
TestLoadDays == 3
IsFixtureDir ==
    /\ news_exists
    /\ \A d \in LoadDates :
          news[d] = (IF today - FixtureFiles < d /\ d <= today
                     THEN FixtureFile(d) ELSE Absent)

\* C14: load_news_files(dir, days=N) returns items of at most N distinct
\* snapshot dates; on the fixture directory with days=3, at most 3 items.
C14_LoadsAtMostDaysDates ==
    pc = "loaded" /\ load_days >= 0 =>
        /\ Cardinality({d \in LoadDates : ItemsFrom(d) # <<>>}) <= load_days
        /\ IsFixtureDir /\ load_days = TestLoadDays => Len(in_items) <= TestLoadDays

\* two dicts are equal, whatever the order of their keys
SameDict(a, b) == Range(a) = Range(b)

\* two metrics structures are equal, key order aside
SameMetrics(a, b) ==
    /\ \A w \in {"7_days", "30_days"} :
          /\ SameDict(a.tag_counts[w], b.tag_counts[w])
          /\ SameDict(a.urgency_counts[w], b.urgency_counts[w])
    /\ SameDict(a.top_sources, b.top_sources)
    /\ SameDict(a.top_keywords, b.top_keywords)
    /\ a.daily_counts = b.daily_counts
    /\ a.top_articles = b.top_articles
    /\ a.kpis = b.kpis

\* every key of the dicts of the metrics is a string
StringKeys(metrics) ==
    \A w \in {"7_days", "30_days"} :
        /\ NoneValue \notin Keys(metrics.tag_counts[w])
        /\ NoneValue \notin Keys(metrics.urgency_counts[w])

C16_WriteFailureIsReported ==
    /\ pc = "updated" /\ save_ok = FALSE => outcome = "False"
    /\ pc = "save_failed" => outcome # "raised"

\* C17: normalize_title is idempotent: normalizing the result of
\* normalize_title again gives the same string, for the empty title too.
C17_NormalizeIdempotent ==
    pc = "normalized_twice" => normalized_twice = normalized

\* a title that normalization changes: capitals, punctuation between
\* blanks, blanks at the ends
C17_Witness ==
    /\ pc = "normalized_twice"
    /\ normalized # sim_title1
    /\ normalized # <<>>
    /\ \E i \in 1..Len(sim_title1) : ~WordOrSpace(sim_title1[i])
    /\ \E i \in 1..Len(normalized) : normalized[i] = " "
    /\ Len(normalized) < Len(SelectSeq(sim_title1, WordOrSpace))

\* the fields compute_metrics reads from an item
ItemFields == {"title", "link", "summary", "tags", "urgency", "date"}

\* the sections of the metrics
MetricsKeys ==
    {"tag_counts", "urgency_counts", "top_sources", "top_keywords",
     "daily_counts", "top_articles", "kpis"}

\* C18: compute_metrics returns the full metrics when items lack any of the
\* fields title, link, summary, tags, urgency and date, the empty item
\* included, and every item of a window is counted in the total of that
\* window.
C18_ItemsWithMissingFieldsCounted ==
    pc = "computed" =>
        /\ DOMAIN out_metrics = MetricsKeys
        /\ out_metrics.kpis.total_7_days = Len(in_days_7)
        /\ out_metrics.kpis.total_30_days = Len(in_days_30)
        /\ Len(out_metrics.top_articles) = Min(Len(in_items), TopArticlesLen)

\* the call of test_compute_metrics_missing_fields: an item with a title
\* only, one with a link only and the empty item, in both windows
C18_Witness ==
    /\ pc = "computed"
    /\ in_items = <<I_TitleOnly, I_LinkOnly, I_Empty>>
    /\ in_days_7 = in_items /\ in_days_30 = in_items
    /\ \A i \in 1..Len(in_items) : ItemFields \ DOMAIN in_items[i] # {}
    /\ out_metrics.kpis.total_30_days = Len(in_items)

\* the tokens of a title: the words of its normalized form that are no
\* stopwords
Tokens(title) == Range(Split(normalize_title(title))) \ stopwords

\* the Jaccard index of two sets is at least the threshold; it is not
\* defined, and so not at least anything, when both sets are empty
JaccardAtLeast(A, B, threshold) ==
    /\ A \cup B # {}
    /\ Cardinality(A \cap B) * threshold[2] >= threshold[1] * Cardinality(A \cup B)

\* the decision procedure as specified, step by step
SpecifiedSimilar(title1, title2, threshold) ==
    LET n1 == normalize_title(title1)
        n2 == normalize_title(title2)
        Long(tokens) == {w \in tokens : Len(w) > 4}
    IN  CASE title1 = <<>> \/ title2 = <<>> -> FALSE
          [] OTHER ->
        CASE n1 = n2 -> TRUE
          [] OTHER ->
        CASE Len(n1) > 20 /\ Len(n2) > 20
                /\ (Contains(n1, n2) \/ Contains(n2, n1)) -> TRUE
          [] OTHER ->
        CASE Tokens(title1) = {} \/ Tokens(title2) = {} -> FALSE
          [] OTHER ->
            \/ JaccardAtLeast(Long(Tokens(title1)), Long(Tokens(title2)), threshold)
            \/ JaccardAtLeast(Tokens(title1), Tokens(title2), threshold)

\* C19: are_titles_similar returns what the specified decision procedure
\* gives, for every pair of titles and every threshold.
C19_SimilarFollowsProcedure ==
    pc = "done" =>
        sim_result = SpecifiedSimilar(sim_title1, sim_title2, sim_threshold)

\* a pair decided by the last step alone: the long tokens reach the
\* threshold, the full token sets do not
C19_Witness ==
    /\ pc = "done"
    /\ sim_result = TRUE
    /\ normalize_title(sim_title1) # normalize_title(sim_title2)
    /\ ~Contains(normalize_title(sim_title1), normalize_title(sim_title2))
    /\ ~Contains(normalize_title(sim_title2), normalize_title(sim_title1))
    /\ ~JaccardAtLeast(Tokens(sim_title1), Tokens(sim_title2), sim_threshold)

\* the lower-cased title, a blank and the lower-cased summary of the article
\* hold one of the words
Mentions(article, words) ==
    LET text == Lower(article["title"]) \o <<" ">>
                    \o Lower(Get(article, "summary", <<>>))
    IN  \E w \in words : Contains(text, Chars(w))

HighWords == {"critical", "zero-day", "actively exploited", "emergency"}
MediumWords == {"exploit", "breach", "ransomware", "attack"}

\* C20: the urgency is High whenever the text holds a High keyword, also
\* when it holds a Medium keyword as well; else Medium whenever it holds a
\* Medium keyword; else Low.
C20_UrgencyByPriority ==
    pc = "classified" =>
        \A i \in 1..Len(input_articles) :
            classified[i].urgency =
                (IF Mentions(input_articles[i], HighWords) THEN "High"
                 ELSE IF Mentions(input_articles[i], MediumWords) THEN "Medium"
                 ELSE "Low")

\* an article that holds a High keyword in its summary only and a Medium
\* keyword too is High
C20_Witness ==
    /\ pc = "classified"
    /\ Mentions(input_articles[1], HighWords)
    /\ Mentions(input_articles[1], MediumWords)
    /\ ~Mentions([title |-> input_articles[1].title], HighWords)
    /\ classified[1].urgency = "High"

\* the file of date d is read to the end: json.load succeeds and the loop
\* over its items raises nothing
FileLoaded(d) ==
    /\ InWindow(d)
    /\ news[d].kind \in {"snapshot", "list", "items_dict", "other"}
    /\ \A i \in 1..Len(FileItems(d)) : ~RaisesTypeError(FileItems(d)[i])

\* the items of the loaded files of the window, date after date, each item
\* once and dated
LoadedInOrder ==
    LET window == LoadWindow(load_days)
    IN  Concat([i \in 1..Len(window) |->
                  IF FileLoaded(window[i]) THEN DatedItems(window[i]) ELSE <<>>])

\* C21: load_news_files returns the items of the loaded files in ascending
\* date order, each file's items in their order and each exactly once, an
\* item without a date carrying the date of its file and an item with a
\* date keeping it.
C21_LoadedInOrderOnce ==
    pc = "loaded" /\ news_exists => in_items = LoadedInOrder

\* the same, for directories whose files hold their items in a list
C21_ListFilesInOrderOnce ==
    pc = "loaded" /\ news_exists
        /\ (\A d \in LoadDates : news[d].kind # "items_dict")
        => in_items = LoadedInOrder

\* the day number that a date string of the items stands for
DayOf(date) ==
    CHOOSE n \in (MetricsToday - Window30 - 1)..MetricsToday : DateStr(n) = date

\* the non-empty dates that occur in the 30-day list
DatesOf(days) ==
    {Get(days[i], "date", <<>>) : i \in 1..Len(days)} \ {<<>>}

\* C22: daily_counts is strictly ascending by date and has exactly one entry
\* for each distinct non-empty date of the 30-day items, whose count is the
\* number of 30-day items of that date, hence at least 1; no other date has
\* an entry.
C22_DailyCountsPerDate ==
    pc = "computed" =>
        LET daily == out_metrics.daily_counts
        IN  /\ \A k \in 1..(Len(daily) - 1) :
                  DayOf(daily[k].date) < DayOf(daily[k + 1].date)
            /\ {daily[k].date : k \in 1..Len(daily)} = DatesOf(in_days_30)
            /\ Len(daily) = Cardinality(DatesOf(in_days_30))
            /\ \A k \in 1..Len(daily) :
                  /\ daily[k].count >= 1
                  /\ daily[k].count =
                        Cardinality({i \in 1..Len(in_days_30) :
                            Get(in_days_30[i], "date", <<>>) = daily[k].date})

\* two dates, met in descending order, one of them on two items
C22_Witness ==
    /\ pc = "computed"
    /\ Len(out_metrics.daily_counts) = 2
    /\ out_metrics.daily_counts[2].count = 2
    /\ Len(in_days_30) = 3
    /\ DayOf(in_days_30[1].date) > DayOf(in_days_30[2].date)

\* the tags the items of a list carry, in item order and, within an item, in
\* tag order
TagOccurrences(days) ==
    Concat(List([i \in 1..Len(days) |->
        IF "tags" \in DOMAIN days[i] /\ IsList(days[i].tags)
        THEN days[i].tags ELSE <<>>]))

\* how often a tag occurs, and where it occurs first
TimesIn(occurrences, tag) ==
    Cardinality({k \in 1..Len(occurrences) : occurrences[k] = tag})
FirstIn(occurrences, tag) ==
    CHOOSE k \in 1..Len(occurrences) :
        /\ occurrences[k] = tag
        /\ \A j \in 1..(k - 1) : occurrences[j] # tag

\* C23: kpis.top_tag is "N/A" when no 30-day item carries a tag; otherwise
\* it is a tag of maximal count over the 30-day items, the first met in
\* item/tag order among the tags of that count, and the first key of
\* tag_counts.30_days.
C23_TopTagFirstOfMostFrequent ==
    pc = "computed" =>
        LET occurrences == TagOccurrences(in_days_30)
            tags == {occurrences[k] : k \in 1..Len(occurrences)}
            top == out_metrics.kpis.top_tag
        IN  IF occurrences = <<>> THEN top = "N/A"
            ELSE /\ top \in tags
                 /\ \A t \in tags :
                       /\ TimesIn(occurrences, t) <= TimesIn(occurrences, top)
                       /\ t # top /\ TimesIn(occurrences, t) = TimesIn(occurrences, top)
                             => FirstIn(occurrences, top) < FirstIn(occurrences, t)
                 /\ top = out_metrics.tag_counts["30_days"][1][1]

\* two tags tied for the maximum and a third tag counted less
C23_Witness ==
    /\ pc = "computed"
    /\ LET occurrences == TagOccurrences(in_days_30)
           tags == {occurrences[k] : k \in 1..Len(occurrences)}
           top == out_metrics.kpis.top_tag
       IN  /\ \E t \in tags \ {top} :
                 TimesIn(occurrences, t) = TimesIn(occurrences, top)
           /\ \E t \in tags : TimesIn(occurrences, t) < TimesIn(occurrences, top)
           /\ occurrences[1] # top

\* the file is a snapshot whose items are the articles of the list, one item
\* per article and in the same order
HoldsExactly(file, articles) ==
    /\ file.kind = "snapshot"
    /\ Len(file.items) = Len(articles)
    /\ \A i \in 1..Len(articles) :
          /\ file.items[i].title = articles[i].title
          /\ file.items[i].link = articles[i].link

\* the article list of the last successful run of a day that had one
LastSaved(d) == saved_runs[d][Len(saved_runs[d])]

\* a run leaves the files of the dates other than its own as they are
OtherDatesKept ==
    \A d \in DOMAIN news : d # today => news'[d] = news[d]

\* C24, as stated: after any sequence of runs the snapshot file of a date
\* holds exactly the articles of the last successful run of that date, and a
\* run leaves the files of the other dates unchanged.
C24_SnapshotIsLastSuccessfulRun ==
    /\ [](\A d \in DOMAIN saved_runs :
            saved_runs[d] # <<>> => HoldsExactly(news[d], LastSaved(d)))
    /\ [][OtherDatesKept]_vars

\* C24, amended: the same, except that a later run of that date which fails
\* while writing the file can leave the file truncated.
C24_SnapshotIsLastSuccessfulRunOrTruncated ==
    /\ [](\A d \in DOMAIN saved_runs :
            saved_runs[d] # <<>> =>
                news[d] = Malformed \/ HoldsExactly(news[d], LastSaved(d)))
    /\ [][OtherDatesKept]_vars

\* the second successful run of a day, on other articles than the first, has
\* left the file with its own articles only
C24_Witness ==
    /\ pc = "saved" /\ save_ok = TRUE
    /\ Len(saved_runs[today]) = 2
    /\ saved_runs[today][1] # <<>>
    /\ saved_runs[today][1] # saved_runs[today][2]
    /\ HoldsExactly(news[today], input_articles)

\* a step leaves the archive of every date other than the run's as it is
OtherArchivesKept ==
    \A d \in DOMAIN stats.archive :
        d # today => stats'.archive[d] = stats.archive[d]

\* C25: across the runs of the generator, save_metrics on date D changes
\* nothing but trends.json and the archive of D (the archive of a date is
\* one file, replaced by a later run of that date), and after each
\* successful run trends.json equals the archive of the run's date, which
\* holds the metrics of that run.
C25_OnlyLatestAndTodaysArchive ==
    /\ [][OtherArchivesKept]_vars
    /\ [](pc = "saved" =>
            /\ stats.latest = stats.archive[today]
            /\ stats.latest.kind = "json"
            /\ stats.latest.doc.kpis = out_metrics.kpis)

\* a successful run on the second day, after a run on the first day that
\* left another archive
C25_Witness ==
    /\ pc = "saved" /\ runs = MaxTrendRuns /\ today = MetricsToday
    /\ stats.archive[today - 1] # Absent
    /\ stats.archive[today - 1] # stats.archive[today]
    /\ stats.latest = stats.archive[today]

\* the metrics without the reading of the clock
WithoutLastUpdate(metrics) ==
    [metrics EXCEPT !.kpis = [k \in DOMAIN metrics.kpis \ {"last_update"} |->
                                metrics.kpis[k]]]

C27_SimilarIsSymmetric ==
    /\ pc = "done" =>
          sim_result = are_titles_similar(sim_title2, sim_title1, sim_threshold)
    /\ pc = "deduped" =>
          \A i, j \in 1..Len(deduped) :
              i # j => ~are_titles_similar(TitleOf(deduped[i]), TitleOf(deduped[j]),
                                           DefaultThreshold)

\* a long title and a longer one that holds it, with few words in common:
\* similar in both orders, and only the first of the two survives
C27_Witness ==
    /\ pc = "deduped"
    /\ Len(sim_title1) < Len(sim_title2)
    /\ Contains(normalize_title(sim_title2), normalize_title(sim_title1))
    /\ normalize_title(sim_title1) # normalize_title(sim_title2)
    /\ are_titles_similar(sim_title2, sim_title1, DefaultThreshold)
    /\ Len(input_articles) = 3
    /\ TitleOf(deduped[1]) = sim_title1
    /\ \A k \in 1..Len(deduped) : TitleOf(deduped[k]) # sim_title2

\* the articles the run put on the page
Published == site.html.articles

\* the run has written a page that shows its articles
PageWritten ==
    pc = "updated" /\ site.html.kind = "html" /\ site.html.sections

\* C28: when fewer than 5 articles survive the first deduplication and the
\* backup source is appended, the survivors of the first deduplication are a
\* prefix of the final list, in unchanged order, and what follows them are
\* backup articles in their order, each similar to no article kept before
\* it.
C28_PrimarySurvivorsArePrefix ==
    PageWritten =>
        LET unique == deduplicate_articles(input_articles)
            n == Len(unique)
            final == Published
        IN  n < MinArticles =>
              /\ Len(final) >= n
              /\ SubSeq(final, 1, n) = unique
              /\ \E K \in SUBSET (1..Len(backup_articles)) :
                    /\ SubSeq(final, n + 1, Len(final)) = Pick(backup_articles, K)
                    /\ \A i \in K :
                          /\ \A u \in 1..n :
                                ~are_titles_similar(TitleOf(backup_articles[i]),
                                                    TitleOf(unique[u]),
                                                    DefaultThreshold)
                          /\ \A j \in K :
                                j < i =>
                                ~are_titles_similar(TitleOf(backup_articles[i]),
                                                    TitleOf(backup_articles[j]),
                                                    DefaultThreshold)

\* two primary survivors, and a backup article dropped for being similar to
\* one of them
C28_Witness ==
    /\ PageWritten
    /\ Len(input_articles) = 2
    /\ Len(backup_articles) = 1
    /\ Published = input_articles

\* the deduplicated articles of the run: the sources' articles without the
\* similar ones, and the backup source's after them when asked
RunArticles ==
    LET unique == deduplicate_articles(input_articles)
    IN  IF Len(unique) < MinArticles
        THEN deduplicate_articles(unique \o backup_articles)
        ELSE unique

\* C29: a run of update_html that ends with no articles returns False and
\* leaves the page, the snapshot of the day and update_info.json as they
\* were; update_info.json is written only by a run that wrote the page, and
\* then its articles_count is the number of deduplicated articles of the
\* run.
C29_NoArticlesNothingWritten ==
    [][LET articles == RunArticles
       IN  /\ articles = <<>> =>
                /\ outcome' = "False"
                /\ site'.html = site.html
                /\ news' = news
                /\ site'.update_info = site.update_info
           /\ site'.update_info # site.update_info
                /\ site'.update_info # Malformed =>
                /\ site.html # Absent
                /\ site'.html = PageAfter(site.html, articles)
                /\ site'.update_info.articles_count = Len(articles)]_vars

\* the run found an existing page, made its backup, got no article from any
\* source and ended with False, all files as before
C29_Witness ==
    /\ pc = "aborted" /\ outcome = "False"
    /\ input_articles = <<>> /\ backup_articles = <<>>
    /\ site.html = Page(TRUE, PriorArticles)
    /\ site.backup = site.html
    /\ site.update_info = PriorInfo
    /\ news[today] = SnapshotOf(PriorArticles, today)

\* the tags an article with urgency Medium is bound to have one of
MediumTags == {"vulnerability", "breach", "ransomware", "attack"}

\* C30: an article tagged "critical" has urgency High, and an article with
\* urgency Medium has at least one of the tags vulnerability, breach,
\* ransomware, attack, so that its snapshot item carries the classifier's
\* tags and not the default "cybersecurity".
C30_TagsAgreeWithUrgency ==
    pc = "classified" =>
        \A i \in 1..Len(input_articles) :
            LET tags == {classified[i].tags[k] : k \in 1..Len(classified[i].tags)}
            IN  /\ "critical" \in tags => classified[i].urgency = "High"
                /\ classified[i].urgency = "Medium" =>
                      /\ tags \cap MediumTags # {}
                      /\ SnapshotItem(input_articles[i], DateStr(today)).tags
                            = classified[i].tags

\* an article of urgency Medium whose only Medium keyword is "ransomware"
C30_Witness ==
    /\ pc = "classified"
    /\ classified[1].urgency = "Medium"
    /\ ~Mentions(input_articles[1], {"exploit", "breach", "attack"})
    /\ \E k \in 1..Len(classified[1].tags) : classified[1].tags[k] = "ransomware"

====
